---- MODULE Spec2Model ----
(***************************************************************************)
(* A state-machine model of the financial assistant: the persisted alert   *)
(* generator of the backend (app/services/alert_service.py), the backend   *)
(* product recommendation service, the text-generation call sites, and the *)
(* deterministic planning engine (financial_engine.py).                    *)
(*                                                                         *)
(* Time is counted in whole days.  Money is counted in whole rupees.       *)
(***************************************************************************)
EXTENDS Integers, Sequences, FiniteSets, TLC

VARIABLES
    now,              \* datetime.now(), in days
    transactions,     \* rows of the transactions table, in insertion order
    goals,            \* rows of the goals table, in primary-key order
    obligations,      \* rows of the obligations table, in primary-key order
    alerts,           \* rows of the alerts table; alerts[i].id = i
    nextGoalId,       \* next primary key of the goals table
    nextObligationId, \* next primary key of the obligations table
    last,             \* the last request served: what it was and what it returned
    pc,               \* interleaved check_low_balance calls: position of each worker
    local,            \* interleaved check_low_balance calls: locals of each worker
    cash,             \* the arguments of summarize_cash_flow
    cash_summary,     \* what summarize_cash_flow returned
    cash_alerts,      \* what predictive_alerts returned
    spend_input,      \* the arguments of behavior_insights
    behavior,         \* what behavior_insights returned
    sip_results,      \* what _sip_required returns, by goal and risk score
    goal_rows,        \* the goals handed to build_goal_plans
    risk_score,       \* the risk score handed to build_goal_plans
    llm_env,          \* what the LLM explanation would meet in this run
    plans,            \* what build_goal_plans returned
    prev_run,         \* risk score, LLM outcome and plans of the run before
    risk_input,       \* the argument of _annual_return_from_risk called on its own
    rate_returned,    \* what that call returned
    users,            \* rows of the users table
    products,         \* rows of the products table, in primary-key order
    match_scores,     \* what _calculate_match_score returns, by product, user and horizon
    conversations,    \* rows of the conversations table; conversations[i].id = i
    messages,         \* rows of the messages table, in insertion order
    request,          \* the get_recommendations call to serve
    reply,            \* the last backend request that called for text, and its outcome
    profile,          \* the profile handed to recommend_products
    catalog,          \* the catalog handed to recommend_products
    top_categories,   \* the spend categories handed to recommend_products
    item_scores,      \* what the score functions of recommend_products return
    product_recs,     \* what recommend_products returned
    loader_env,       \* what load_product_catalog meets: environment, sources
    loaded            \* what load_product_catalog returned or raised

alertVars == <<now, transactions, goals, obligations, alerts,
               nextGoalId, nextObligationId, last>>
raceVars == <<pc, local>>
insightVars == <<spend_input, behavior>>
cashVars == <<cash, cash_summary, cash_alerts, insightVars>>
rateVars == <<risk_input, rate_returned>>
planVars == <<sip_results, goal_rows, risk_score, llm_env, plans, prev_run, rateVars>>
backendVars == <<users, products, match_scores, conversations, messages,
                 request, reply>>
loaderVars == <<loader_env, loaded>>
matcherVars == <<profile, catalog, top_categories, item_scores, product_recs,
                 loaderVars>>
\* All but the tables and the workers that share them.
nonAlertVars == <<cashVars, planVars, backendVars, matcherVars>>
\* All but the variables of the cash-flow analysis.
nonCashVars == <<alertVars, raceVars, planVars, backendVars, matcherVars>>
\* All but the variables of goal planning.
nonPlanVars == <<alertVars, raceVars, cashVars, backendVars, matcherVars>>
\* All but the variables of the product matcher.
nonMatcherVars == <<alertVars, raceVars, cashVars, planVars, backendVars>>
vars == <<alertVars, raceVars, cashVars, planVars, backendVars, matcherVars>>

(***************************************************************************)
(* Bounds of the model.                                                    *)
(***************************************************************************)
StartDay == 24
MaxNow == 31
TickDays == 6
MaxTransactions == 1
MaxGoals == 2
MaxObligations == 1
MaxAlerts == 3
IdSkip == 10
NumWorkers == 2

(***************************************************************************)
(* Program constants.                                                      *)
(***************************************************************************)
LowBalanceThreshold == 10000
GoalWindowDays == 30
DaysBefore == 5
DaysPerMonth == 30

Users == {1, 2}


\* users.income: user 1 earns 10000 a month, user 2 never filled the column in.
UserIncome(u) == IF u = 1 THEN 10000 ELSE 0

\* The user whose rows the full generator is driven with: the one with an income.
Owner == CHOOSE u \in Users : UserIncome(u) # 0

\* What a client posts: a salary credit or an expense.
TransactionKinds ==
    { [transaction_type |-> "income", amount |-> 20000],
      [transaction_type |-> "expense", amount |-> 9000] }

\* Dates a client may post, around the days the clock of the model visits.
GoalDates == {28, 60}
DueDates == {28, 50}
NearDate == StartDay + 4

Max(a, b) == IF a >= b THEN a ELSE b
Min(a, b) == IF a <= b THEN a ELSE b

(***************************************************************************)
(* SQL fragments.                                                          *)
(***************************************************************************)

\* func.sum(Transaction.amount) filtered by user, type and date >= since,
\* "or 0" for no rows.
RECURSIVE SumAmount(_, _, _, _)
SumAmount(txs, u, ttype, since) ==
    IF txs = <<>> THEN 0
    ELSE LET t == Head(txs)
             rest == SumAmount(Tail(txs), u, ttype, since)
         IN IF t.user_id = u /\ t.transaction_type = ttype /\ t.date >= since
            THEN t.amount + rest
            ELSE rest

\* The decimal digits of p are a prefix of those of m.
RECURSIVE DecPrefix(_, _)
DecPrefix(p, m) ==
    IF m = p THEN TRUE
    ELSE IF m < 10 THEN FALSE
    ELSE DecPrefix(p, m \div 10)

\* Alert.alert_metadata.contains(f'"<key>": {id}'): the metadata is written as
\* '{"<key>": <meta.id>, ...', so the pattern is found when the key is the
\* same and the digits of id are a prefix of the digits of the stored id.
MetadataContains(meta, key, id) ==
    meta.key = key /\ DecPrefix(id, meta.id)

NoMeta == [key |-> "none", id |-> 0]

NewAlert(al, u, type, priority, meta) ==
    [id |-> Len(al) + 1, user_id |-> u, alert_type |-> type,
     priority |-> priority, is_read |-> FALSE, alert_metadata |-> meta,
     created_at |-> now]

Balance(u) ==
    SumAmount(transactions, u, "income", 0) - SumAmount(transactions, u, "expense", 0)

StartOfMonth == (now \div DaysPerMonth) * DaysPerMonth

(***************************************************************************)
(* AlertService.  Each operator takes the alerts table as it stands and    *)
(* returns the table after the call and the ids of the alerts returned.    *)
(***************************************************************************)

\* The dedup query of check_low_balance with the read flag the wrong way round.
ExistingLowBalance_ReadOnes(al, u) ==
    \E i \in DOMAIN al :
        /\ al[i].user_id = u
        /\ al[i].alert_type = "low_balance"
        /\ al[i].is_read = TRUE

\* The dedup query of check_low_balance without its is_read filter.
ExistingLowBalance_ReadOrNot(al, u) ==
    \E i \in DOMAIN al :
        /\ al[i].user_id = u
        /\ al[i].alert_type = "low_balance"

ExistingLowBalance(al, u) ==
    \E i \in DOMAIN al :
        /\ al[i].user_id = u
        /\ al[i].alert_type = "low_balance"
        /\ al[i].is_read = FALSE

check_low_balance(al, u) ==
    IF Balance(u) < LowBalanceThreshold /\ ~ExistingLowBalance(al, u)
    THEN [alerts |-> Append(al, NewAlert(al, u, "low_balance", "high", NoMeta)),
          created |-> <<Len(al) + 1>>]
    ELSE [alerts |-> al, created |-> <<>>]

ExistingGoalAlert(al, u, gid) ==
    \E i \in DOMAIN al :
        /\ al[i].user_id = u
        /\ al[i].alert_type = "goal_deadline"
        /\ MetadataContains(al[i].alert_metadata, "goal_id", gid)
        /\ al[i].is_read = FALSE

GoalIsDue(g, u) ==
    /\ g.user_id = u
    /\ g.status = "active"
    /\ g.target_date <= now + GoalWindowDays
    /\ g.target_date >= now

\* current_amount is 0.0 for every goal (no request writes it), so progress
\* is 0 and the priority is HIGH.
RECURSIVE GoalLoop(_, _, _, _)
GoalLoop(al, created, u, i) ==
    IF i > Len(goals) THEN [alerts |-> al, created |-> created]
    ELSE LET g == goals[i] IN
         IF GoalIsDue(g, u) /\ ~ExistingGoalAlert(al, u, g.id)
         THEN GoalLoop(Append(al, NewAlert(al, u, "goal_deadline", "high",
                                           [key |-> "goal_id", id |-> g.id])),
                       Append(created, Len(al) + 1), u, i + 1)
         ELSE GoalLoop(al, created, u, i + 1)

check_goal_deadlines(al, u) == GoalLoop(al, <<>>, u, 1)

\* The dedup query of check_budget_exceeded with > for >= on the month start.
ExistingBudgetAlert_AfterStart(al, u) ==
    \E i \in DOMAIN al :
        /\ al[i].user_id = u
        /\ al[i].alert_type = "budget_exceeded"
        /\ al[i].is_read = FALSE
        /\ al[i].created_at > StartOfMonth

ExistingBudgetAlert(al, u) ==
    \E i \in DOMAIN al :
        /\ al[i].user_id = u
        /\ al[i].alert_type = "budget_exceeded"
        /\ al[i].is_read = FALSE
        /\ al[i].created_at >= StartOfMonth

\* total_expenses > user.income * 0.8, in fifths to stay in the integers.
BudgetExceeded(u) ==
    /\ UserIncome(u) # 0
    /\ 5 * SumAmount(transactions, u, "expense", StartOfMonth) > 4 * UserIncome(u)

check_budget_exceeded(al, u) ==
    IF BudgetExceeded(u) /\ ~ExistingBudgetAlert(al, u)
    THEN [alerts |-> Append(al, NewAlert(al, u, "budget_exceeded", "high", NoMeta)),
          created |-> <<Len(al) + 1>>]
    ELSE [alerts |-> al, created |-> <<>>]

\* The query for an unread reminder, asking for past_due alerts only.
ExistingObligationAlert_PastDueOnly(al, u, oid) ==
    \E i \in DOMAIN al :
        /\ al[i].user_id = u
        /\ al[i].alert_type = "past_due"
        /\ MetadataContains(al[i].alert_metadata, "obligation_id", oid)
        /\ al[i].is_read = FALSE

ExistingObligationAlert(al, u, oid) ==
    \E i \in DOMAIN al :
        /\ al[i].user_id = u
        /\ al[i].alert_type \in {"due_soon", "past_due"}
        /\ MetadataContains(al[i].alert_metadata, "obligation_id", oid)
        /\ al[i].is_read = FALSE

IsPastDue(o) == o.due_date < now
IsDueSoon(o) == now <= o.due_date /\ o.due_date <= now + DaysBefore

RECURSIVE ObligationLoop(_, _, _, _)
ObligationLoop(al, created, u, i) ==
    IF i > Len(obligations) THEN [alerts |-> al, created |-> created]
    ELSE LET o == obligations[i] IN
         IF /\ o.user_id = u
            /\ o.status = "active"
            /\ (IsPastDue(o) \/ IsDueSoon(o))
            /\ ~ExistingObligationAlert(al, u, o.id)
         THEN ObligationLoop(
                  Append(al, NewAlert(al, u,
                                      IF IsPastDue(o) THEN "past_due" ELSE "due_soon",
                                      IF IsPastDue(o) THEN "high" ELSE "medium",
                                      [key |-> "obligation_id", id |-> o.id])),
                  Append(created, Len(al) + 1), u, i + 1)
         ELSE ObligationLoop(al, created, u, i + 1)

check_obligations_due(al, u) == ObligationLoop(al, <<>>, u, 1)

generate_all_alerts(al, u) ==
    LET r1 == check_low_balance(al, u)
        r2 == check_goal_deadlines(r1.alerts, u)
        r3 == check_obligations_due(r2.alerts, u)
        r4 == check_budget_exceeded(r3.alerts, u)
    IN [alerts |-> r4.alerts,
        created |-> r1.created \o r2.created \o r3.created \o r4.created]

\* The unread alerts of a user, by id.
Unread(al, u) ==
    { i \in DOMAIN al : al[i].user_id = u /\ al[i].is_read = FALSE }

UnreadOfType(al, u, type) ==
    { i \in Unread(al, u) : al[i].alert_type = type }

(***************************************************************************)
(* Requests, served one at a time.                                         *)
(***************************************************************************)

Idle == [op |-> "none", user |-> 0, created |-> <<>>,
         ok |-> TRUE, repeat |-> FALSE, unread_changed |-> FALSE]

TablesEmpty ==
    /\ now = StartDay
    /\ transactions = <<>>
    /\ goals = <<>>
    /\ obligations = <<>>
    /\ alerts = <<>>
    /\ nextGoalId = 1
    /\ nextObligationId = 1
    /\ last = Idle

\* behavior_insights not called.
InsightIdle ==
    /\ spend_input = <<>>
    /\ behavior = <<>>

\* No cash-flow analysis under way.
CashIdle ==
    /\ InsightIdle
    /\ cash = <<>>
    /\ cash_summary = <<>>
    /\ cash_alerts = <<>>

\* The rate model not called on its own.
RateIdle ==
    /\ risk_input = <<>>
    /\ rate_returned = <<>>

\* No goal planning under way.
PlanIdle ==
    /\ RateIdle
    /\ sip_results = {}
    /\ goal_rows = <<>>
    /\ risk_score = 0
    /\ llm_env = <<>>
    /\ plans = <<>>
    /\ prev_run = <<>>

\* No backend request that calls for text served, the seeded tables not loaded.
BackendIdle ==
    /\ users = <<>>
    /\ products = <<>>
    /\ match_scores = <<>>
    /\ conversations = <<>>
    /\ messages = <<>>
    /\ request = <<>>
    /\ reply = <<>>

\* load_product_catalog not called.
LoaderIdle ==
    /\ loader_env = <<>>
    /\ loaded = <<>>

\* No product matching under way.
MatcherIdle ==
    /\ LoaderIdle
    /\ profile = <<>>
    /\ catalog = <<>>
    /\ top_categories = {}
    /\ item_scores = {}
    /\ product_recs = <<>>

EngineIdle == CashIdle /\ PlanIdle /\ BackendIdle /\ MatcherIdle

\* The tables as created at start-up, and no interleaved worker.
AlertInit ==
    /\ TablesEmpty
    /\ pc = <<>>
    /\ local = <<>>
    /\ EngineIdle

\* Time passes.
Tick ==
    /\ now + TickDays <= MaxNow
    /\ now' = now + TickDays
    /\ last' = Idle
    /\ UNCHANGED <<transactions, goals, obligations, alerts,
                   nextGoalId, nextObligationId, pc, local, nonAlertVars>>

\* POST /budgeting/transactions
CreateTransaction(u, k) ==
    /\ Len(transactions) < MaxTransactions
    /\ transactions' = Append(transactions,
           [user_id |-> u, transaction_type |-> k.transaction_type,
            amount |-> k.amount, date |-> now])
    /\ last' = Idle
    /\ UNCHANGED <<now, goals, obligations, alerts, nextGoalId, nextObligationId,
                   pc, local, nonAlertVars>>

\* POST /goals.  Primary keys grow; skip stands for the keys taken in between
\* by rows that are gone again.
CreateGoal(u, d, skip) ==
    /\ Len(goals) < MaxGoals
    /\ goals' = Append(goals, [id |-> nextGoalId + skip, user_id |-> u,
                               status |-> "active", target_date |-> d])
    /\ nextGoalId' = nextGoalId + skip + 1
    /\ last' = Idle
    /\ UNCHANGED <<now, transactions, obligations, alerts, nextObligationId,
                   pc, local, nonAlertVars>>

\* POST /obligations
CreateObligation(u, d) ==
    /\ Len(obligations) < MaxObligations
    /\ obligations' = Append(obligations,
           [id |-> nextObligationId, user_id |-> u,
            status |-> "active", due_date |-> d])
    /\ nextObligationId' = nextObligationId + 1
    /\ last' = Idle
    /\ UNCHANGED <<now, transactions, goals, alerts, nextGoalId, pc, local,
                   nonAlertVars>>

\* POST /alerts/generate
GenerateAlerts(u) ==
    LET r == generate_all_alerts(alerts, u) IN
    /\ Len(r.alerts) <= MaxAlerts
    /\ alerts' = r.alerts
    /\ last' = [op |-> "generate_all_alerts", user |-> u,
                created |-> r.created, ok |-> TRUE,
                repeat |-> (last.op = "generate_all_alerts" /\ last.user = u),
                unread_changed |-> (Unread(r.alerts, u) # Unread(alerts, u))]
    /\ UNCHANGED <<now, transactions, goals, obligations,
                   nextGoalId, nextObligationId, pc, local, nonAlertVars>>

\* AlertService.check_low_balance called on its own.
CheckLowBalance(u) ==
    LET r == check_low_balance(alerts, u) IN
    /\ Len(r.alerts) <= MaxAlerts
    /\ alerts' = r.alerts
    /\ last' = [Idle EXCEPT !.op = "check_low_balance", !.user = u,
                            !.created = r.created]
    /\ UNCHANGED <<now, transactions, goals, obligations,
                   nextGoalId, nextObligationId, pc, local, nonAlertVars>>

\* mark_alert_read looking the alert up by its id alone.
mark_alert_read_AnyOwner(al, alert_id, u) ==
    IF \E i \in DOMAIN al : al[i].id = alert_id
    THEN [alerts |-> [i \in DOMAIN al |->
                        IF al[i].id = alert_id
                        THEN [al[i] EXCEPT !.is_read = TRUE]
                        ELSE al[i]],
          ok |-> TRUE]
    ELSE [alerts |-> al, ok |-> FALSE]

mark_alert_read(al, alert_id, u) ==
    IF \E i \in DOMAIN al : al[i].id = alert_id /\ al[i].user_id = u
    THEN [alerts |-> [i \in DOMAIN al |->
                        IF al[i].id = alert_id /\ al[i].user_id = u
                        THEN [al[i] EXCEPT !.is_read = TRUE]
                        ELSE al[i]],
          ok |-> TRUE]
    ELSE [alerts |-> al, ok |-> FALSE]

\* POST /alerts/{alert_id}/read
MarkAlertRead(u, alert_id) ==
    LET r == mark_alert_read(alerts, alert_id, u) IN
    /\ alerts' = r.alerts
    /\ last' = [Idle EXCEPT !.op = "mark_alert_read", !.user = u,
                            !.ok = r.ok]
    /\ UNCHANGED <<now, transactions, goals, obligations,
                   nextGoalId, nextObligationId, pc, local, nonAlertVars>>

\* The alert generator as one user drives it, the clock running.
AlertNext ==
    \/ Tick
    \/ \E k \in TransactionKinds : CreateTransaction(Owner, k)
    \/ CreateGoal(Owner, NearDate, 0)
    \/ CreateObligation(Owner, NearDate)
    \/ GenerateAlerts(Owner)
    \/ \E a \in 1..(MaxAlerts + 1) : MarkAlertRead(Owner, a)

SpecAlerts == AlertInit /\ [][AlertNext]_vars

\* The low-balance check on its own, two users sharing the tables.
LowBalanceNext ==
    \/ \E u \in Users, k \in TransactionKinds : CreateTransaction(u, k)
    \/ \E u \in Users : CheckLowBalance(u)
    \/ \E u \in Users, a \in 1..(MaxAlerts + 1) : MarkAlertRead(u, a)

SpecLowBalance == AlertInit /\ [][LowBalanceNext]_vars

\* AlertService.check_goal_deadlines called on its own.
CheckGoalDeadlines(u) ==
    LET r == check_goal_deadlines(alerts, u) IN
    /\ Len(r.alerts) <= MaxAlerts
    /\ alerts' = r.alerts
    /\ last' = [Idle EXCEPT !.op = "check_goal_deadlines", !.user = u,
                            !.created = r.created]
    /\ UNCHANGED <<now, transactions, goals, obligations,
                   nextGoalId, nextObligationId, pc, local, nonAlertVars>>

\* The goal-deadline check on its own, the goals of the user taking primary
\* keys next to each other or IdSkip apart.
DeadlineNext ==
    \/ Tick
    \/ \E d \in GoalDates \cup {NearDate}, skip \in {0, IdSkip} :
           CreateGoal(Owner, d, skip)
    \/ CheckGoalDeadlines(Owner)
    \/ \E a \in 1..(MaxAlerts + 1) : MarkAlertRead(Owner, a)

SpecDeadlines == AlertInit /\ [][DeadlineNext]_vars

\* AlertService.check_obligations_due called on its own.
CheckObligationsDue(u) ==
    LET r == check_obligations_due(alerts, u) IN
    /\ Len(r.alerts) <= MaxAlerts
    /\ alerts' = r.alerts
    /\ last' = [Idle EXCEPT !.op = "check_obligations_due", !.user = u,
                            !.created = r.created]
    /\ UNCHANGED <<now, transactions, goals, obligations,
                   nextGoalId, nextObligationId, pc, local, nonAlertVars>>

\* The obligation check on its own, one call after the other, the clock
\* running and the users reading their alerts.
ObligationNext ==
    \/ Tick
    \/ \E u \in Users, d \in DueDates : CreateObligation(u, d)
    \/ \E u \in Users : CheckObligationsDue(u)
    \/ \E u \in Users, a \in 1..(MaxAlerts + 1) : MarkAlertRead(u, a)

SpecObligations == AlertInit /\ [][ObligationNext]_vars

\* The whole service, two users sharing the tables: every check through
\* generate_all_alerts, and each user asking for any alert id.
ServiceNext ==
    \/ Tick
    \/ \E u \in Users :
           CreateTransaction(u, [transaction_type |-> "expense", amount |-> 9000])
    \/ CreateGoal(Owner, NearDate, 0)
    \/ CreateObligation(Owner, NearDate)
    \/ \E u \in Users : GenerateAlerts(u)
    \/ \E u \in Users, a \in 1..(MaxAlerts + 1) : MarkAlertRead(u, a)

SpecService == AlertInit /\ [][ServiceNext]_vars

(***************************************************************************)
(* check_low_balance served by several workers at once.  Every worker has  *)
(* its own session: it reads what is committed, and its insert is one      *)
(* commit.                                                                 *)
(***************************************************************************)
Workers == 1..NumWorkers

WorkerIdle == [user |-> 0, balance |-> 0, existing |-> FALSE, created |-> 0]

RaceInit ==
    /\ TablesEmpty
    /\ pc = [w \in Workers |-> "idle"]
    /\ local = [w \in Workers |-> WorkerIdle]
    /\ EngineIdle

\* The two sum queries and balance = total_income - total_expenses.
ReadBalance(w, u) ==
    /\ pc[w] = "idle"
    /\ local' = [local EXCEPT ![w] = [WorkerIdle EXCEPT !.user = u,
                                                        !.balance = Balance(u)]]
    /\ pc' = [pc EXCEPT ![w] = "balance_read"]
    /\ UNCHANGED <<alertVars, nonAlertVars>>

\* if balance < threshold: existing = db.query(Alert)...first()
QueryExisting(w) ==
    /\ pc[w] = "balance_read"
    /\ IF local[w].balance < LowBalanceThreshold
       THEN /\ local' = [local EXCEPT
                            ![w].existing = ExistingLowBalance(alerts, local[w].user)]
            /\ pc' = [pc EXCEPT ![w] = "queried"]
       ELSE /\ pc' = [pc EXCEPT ![w] = "done"]
            /\ UNCHANGED local
    /\ UNCHANGED <<alertVars, nonAlertVars>>

\* An insert that looks at the table again when it commits.
InsertDecision_Recheck(w) ==
    ~local[w].existing /\ ~ExistingLowBalance(alerts, local[w].user)

\* if not existing: the worker goes by the answer its own query gave.
InsertDecision(w) == ~local[w].existing

\* db.add(alert); db.commit(); return alert -- or return None.
InsertAlert(w) ==
    /\ pc[w] = "queried"
    /\ IF InsertDecision(w)
       THEN /\ Len(alerts) < MaxAlerts
            /\ alerts' = Append(alerts, NewAlert(alerts, local[w].user,
                                                 "low_balance", "high", NoMeta))
            /\ local' = [local EXCEPT ![w].created = Len(alerts) + 1]
       ELSE UNCHANGED <<alerts, local>>
    /\ pc' = [pc EXCEPT ![w] = "done"]
    /\ UNCHANGED <<now, transactions, goals, obligations,
                   nextGoalId, nextObligationId, last, nonAlertVars>>

\* The request is answered; the worker takes the next one.
Return(w) ==
    /\ pc[w] = "done"
    /\ pc' = [pc EXCEPT ![w] = "idle"]
    /\ local' = [local EXCEPT ![w] = WorkerIdle]
    /\ UNCHANGED <<alertVars, nonAlertVars>>

RaceNext ==
    \/ \E w \in Workers, u \in Users : ReadBalance(w, u)
    \/ \E w \in Workers : QueryExisting(w)
    \/ \E w \in Workers : InsertAlert(w)
    \/ \E w \in Workers : Return(w)
    \/ \E u \in Users, k \in TransactionKinds : CreateTransaction(u, k)

SpecRace == RaceInit /\ [][RaceNext]_vars

(***************************************************************************)
(* Python floats.  A float is an IEEE-754 binary64 number; the ones met    *)
(* here are never negative.  A value is kept exactly, as m * 2^e with the  *)
(* natural number m held in limbs (least significant first), and every     *)
(* arithmetic operation is the exact operation followed by one rounding to *)
(* 53 significant bits, ties to even.  The exponent is not bounded:        *)
(* overflow and underflow are outside this model.                          *)
(***************************************************************************)

LimbBits == 15
LimbBase == 2^LimbBits
Precision == 53

\* y, with x evaluated beforehand: TLC evaluates a definition where it is
\* first used, and a long chain of pending definitions exhausts its stack.
First(x, y) == IF x = x THEN y ELSE y

Pow2(k) == 2^k

\* The largest member of a non-empty set of numbers
SetMax(S) == CHOOSE x \in S : \A y \in S : y <= x

\* The sequence a function on 1..n is, with its elements evaluated once
AsSeq(f) == f \o <<>>

\* a without the zero limbs at its top
BTrim(a) == SubSeq(a, 1, SetMax({0} \cup {i \in 1..Len(a) : a[i] # 0}))

RECURSIVE BFromInt(_)
BFromInt(n) ==
    IF n = 0 THEN <<>> ELSE <<n % LimbBase>> \o BFromInt(n \div LimbBase)

Limb(a, i) == IF i <= Len(a) THEN a[i] ELSE 0

\* The carry into limb i of a sum whose limb-wise sums are s: it looks down
\* the run of limbs that pass a carry on.
RECURSIVE Carry(_, _)
Carry(s, i) ==
    IF i = 1 THEN 0
    ELSE IF s[i - 1] >= LimbBase THEN 1
    ELSE IF s[i - 1] = LimbBase - 1 THEN Carry(s, i - 1)
    ELSE 0

BAdd(a, b) ==
    LET n == Max(Len(a), Len(b)) + 1
        s == [i \in 1..n |-> Limb(a, i) + Limb(b, i)]
    IN BTrim([i \in 1..n |-> (s[i] + Carry(s, i)) % LimbBase])

\* The borrow from limb i of a difference whose limb-wise differences are d
RECURSIVE Borrow(_, _)
Borrow(d, i) ==
    IF i = 1 THEN 0
    ELSE IF d[i - 1] < 0 THEN 1
    ELSE IF d[i - 1] = 0 THEN Borrow(d, i - 1)
    ELSE 0

\* a - b for a >= b
BSub(a, b) ==
    LET d == [i \in 1..Len(a) |-> a[i] - Limb(b, i)]
    IN BTrim([i \in 1..Len(a) |-> (d[i] - Borrow(d, i) + LimbBase) % LimbBase])

\* -1, 0 or 1 as a is below, equal to or above b
BCmp(a, b) ==
    IF Len(a) > Len(b) THEN 1
    ELSE IF Len(a) < Len(b) THEN -1
    ELSE LET differ == {i \in 1..Len(a) : a[i] # b[i]}
         IN IF differ = {} THEN 0
            ELSE IF a[SetMax(differ)] > b[SetMax(differ)] THEN 1
            ELSE -1

\* a * k for 0 <= k < LimbBase: the low halves of the limb products plus
\* their high halves one limb up
BMulSmall(a, k) ==
    BAdd(AsSeq([i \in 1..Len(a) |-> (a[i] * k) % LimbBase]),
         <<0>> \o [i \in 1..Len(a) |-> (a[i] * k) \div LimbBase])

BShlLimbs(a, n) == IF a = <<>> THEN <<>> ELSE [i \in 1..n |-> 0] \o a

\* a * b, one limb of b after the other
RECURSIVE BMulAt(_, _, _)
BMulAt(a, b, i) ==
    IF i > Len(b) THEN <<>>
    ELSE BAdd(BShlLimbs(BMulSmall(a, b[i]), i - 1), BMulAt(a, b, i + 1))

BMul(a, b) == IF Len(a) >= Len(b) THEN BMulAt(a, b, 1) ELSE BMulAt(b, a, 1)

RECURSIVE BPowAcc(_, _, _)
BPowAcc(a, n, acc) ==
    IF n = 0 THEN acc ELSE First(acc, BPowAcc(a, n - 1, BMul(acc, a)))

BPow(a, n) == BPowAcc(a, n, <<1>>)

\* a * 2^k
BShl(a, k) == BShlLimbs(BMulSmall(a, Pow2(k % LimbBits)), k \div LimbBits)

\* a \div 2^k
BShr(a, k) ==
    LET q == k \div LimbBits
        r == k % LimbBits
    IN BTrim([i \in 1..Max(Len(a) - q, 0) |->
                 (a[i + q] \div Pow2(r))
                 + (Limb(a, i + q + 1) % Pow2(r)) * Pow2(LimbBits - r)])

\* Bit k of a, bit 0 being the lowest
Bit(a, k) == (Limb(a, k \div LimbBits + 1) \div Pow2(k % LimbBits)) % 2

\* Whether a has a bit set below bit k
AnyBitBelow(a, k) ==
    \/ \E i \in 1..Min(k \div LimbBits, Len(a)) : a[i] # 0
    \/ Limb(a, k \div LimbBits + 1) % Pow2(k % LimbBits) # 0

\* The number of bits of n < LimbBase
IntBits(n) == IF n = 0 THEN 0 ELSE CHOOSE k \in 1..LimbBits : Pow2(k - 1) <= n /\ n < Pow2(k)

\* The number of bits of a
BLen(a) == IF a = <<>> THEN 0 ELSE LimbBits * (Len(a) - 1) + IntBits(a[Len(a)])

\* The largest d <= guess with d * b <= r; the guess is at most two too high
RECURSIVE QuotientLimb(_, _, _)
QuotientLimb(r, b, guess) ==
    IF guess = 0 THEN 0
    ELSE IF BCmp(BMulSmall(b, guess), r) <= 0 THEN guess
    ELSE QuotientLimb(r, b, guess - 1)

\* Long division of r by b, whose top limb is at least LimbBase / 2, from
\* limb j of the quotient down; q holds the limbs found so far.
RECURSIVE BDivModAt(_, _, _, _)
BDivModAt(r, b, j, q) ==
    IF j < 0 THEN [q |-> BTrim(q), r |-> r]
    ELSE LET bj == BShlLimbs(b, j)
             n == Len(bj)
             guess == Min((Limb(r, n + 1) * LimbBase + Limb(r, n)) \div b[Len(b)],
                          LimbBase - 1)
             d == QuotientLimb(r, bj, guess)
             rest == BSub(r, BMulSmall(bj, d))
         IN First(rest, BDivModAt(rest, b, j - 1, <<d>> \o q))

\* Quotient and remainder of a by b # 0; both are first scaled to bring the
\* top limb of b to at least LimbBase / 2.
BDivMod(a, b) ==
    LET k == (LimbBits - (BLen(b) % LimbBits)) % LimbBits
        as == BShl(a, k)
        bs == BShl(b, k)
        d == BDivModAt(as, bs, Max(Len(as) - Len(bs), 0), <<>>)
    IN [q |-> d.q, r |-> BShr(d.r, k)]

\* The number of zero bits at the bottom of a # 0
TrailingZeros(a) ==
    LET i == CHOOSE j \in 1..Len(a) : a[j] # 0 /\ \A l \in 1..(j - 1) : a[l] = 0
        t == CHOOSE k \in 0..(LimbBits - 1) : a[i] % Pow2(k + 1) # 0 /\ a[i] % Pow2(k) = 0
    IN LimbBits * (i - 1) + t

\* The one representation of m * 2^e that has m odd.
Canon(m, e) ==
    IF m = <<>> THEN [m |-> <<>>, e |-> 0]
    ELSE [m |-> BShr(m, TrailingZeros(m)), e |-> e + TrailingZeros(m)]

\* The float nearest to m * 2^e, or to a value strictly between m * 2^e and
\* (m + 1) * 2^e when sticky (m then has more than Precision + 1 bits).
\* Ties go to the even neighbour.
RoundToFloat(m, e, sticky) ==
    LET s == BLen(m) - Precision IN
    IF s <= 0 THEN Canon(m, e)
    ELSE LET q == BShr(m, s)
             above == sticky \/ AnyBitBelow(m, s - 1)
             up == Bit(m, s - 1) = 1 /\ (above \/ q[1] % 2 = 1)
         IN Canon(IF up THEN BAdd(q, <<1>>) ELSE q, e + s)

\* float(n) for a natural number n < 2^31
FromInt(n) == Canon(BFromInt(n), 0)

\* The mantissa of x once the exponent is lowered to e <= x.e
Aligned(x, e) == BShl(x.m, x.e - e)

\* -1, 0 or 1 as x is below, equal to or above y
FCmp(x, y) ==
    IF x.m = <<>> \/ y.m = <<>> THEN BCmp(x.m, y.m)
    ELSE LET e == Min(x.e, y.e) IN BCmp(Aligned(x, e), Aligned(y, e))

FLess(x, y) == FCmp(x, y) < 0

FMax(x, y) == IF FLess(x, y) THEN y ELSE x

FMin(x, y) == IF FLess(y, x) THEN y ELSE x

FAdd(x, y) ==
    IF x.m = <<>> THEN y
    ELSE IF y.m = <<>> THEN x
    ELSE LET e == Min(x.e, y.e)
         IN RoundToFloat(BAdd(Aligned(x, e), Aligned(y, e)), e, FALSE)

\* x - y for x >= y
FSub(x, y) ==
    IF y.m = <<>> THEN x
    ELSE LET e == Min(x.e, y.e)
         IN RoundToFloat(BSub(Aligned(x, e), Aligned(y, e)), e, FALSE)

FMul(x, y) == RoundToFloat(BMul(x.m, y.m), x.e + y.e, FALSE)

\* x / y for y # 0: the quotient is taken to at least Precision + 2 bits
FDiv(x, y) ==
    IF x.m = <<>> THEN x
    ELSE LET k == Max(Precision + 2 + BLen(y.m) - BLen(x.m), 0)
             d == BDivMod(BShl(x.m, k), y.m)
         IN RoundToFloat(d.q, x.e - y.e - k, d.r # <<>>)

\* x ** n for an int n >= 0, as a correctly rounded pow gives it
FPow(x, n) == RoundToFloat(BPow(x.m, n), x.e * n, FALSE)

\* int(x): truncation
FTrunc(x) ==
    IF x.m = <<>> THEN 0
    ELSE LET t == IF x.e >= 0 THEN BShl(x.m, x.e) ELSE BShr(x.m, -x.e)
         IN Limb(t, 1) + LimbBase * Limb(t, 2)

\* The literal n/d of the source text, e.g. 0.065 is Decimal(65, 1000)
Decimal(n, d) == FDiv(FromInt(n), FromInt(d))

\* |x - y| <= y * n / d
WithinRel(x, y, n, d) ==
    LET hi == FMax(x, y)
        lo == FMin(x, y)
        e == Min(x.e, y.e)
        diff == BSub(Aligned(hi, e), Aligned(lo, e))
    IN BCmp(BMul(diff, BFromInt(d)), BMul(Aligned(y, e), BFromInt(n))) <= 0

\* A float with its sign.  Zero is kept without a sign: -0.0 and 0.0 compare
\* equal and add alike.
Signed(neg, x) == [neg |-> neg /\ x.m # <<>>, abs |-> x]

Positive(x) == Signed(FALSE, x)

SNeg(a) == Signed(~a.neg, a.abs)

SAdd(a, b) ==
    IF a.neg = b.neg THEN Signed(a.neg, FAdd(a.abs, b.abs))
    ELSE IF FLess(a.abs, b.abs) THEN Signed(b.neg, FSub(b.abs, a.abs))
    ELSE Signed(a.neg, FSub(a.abs, b.abs))

SSub(a, b) == SAdd(a, SNeg(b))

\* a < b
SLess(a, b) ==
    IF a = b THEN FALSE
    ELSE IF a.neg # b.neg THEN a.neg
    ELSE IF a.neg THEN FLess(b.abs, a.abs)
    ELSE FLess(a.abs, b.abs)

(***************************************************************************)
(* financial_engine.py: cash-flow summary and predictive alerts.  Amounts  *)
(* are whole rupees; a quotient is kept as numerator and denominator, so   *)
(* that a comparison with a threshold is exact.                            *)
(***************************************************************************)

\* What the form of the demo hands over.
CashInputs ==
    [monthly_income : {0, 10000, 50000},
     monthly_expense : {0, 8000, 40000},
     existing_sips : {0},
     emi : {0, 1, 1000},
     recommended_sip : {0, 5000},
     cash_reserve : {0, 24000, 120000}]

\* math.inf
Infinity == [num |-> 1, den |-> 0]

\* a / b < n / d for a finite n / d with d > 0; math.inf is below nothing.
RatLess(r, n, d) == r.den # 0 /\ r.num * d < n * r.den

\* No burn and no reserve taken for a runway of zero months.
summarize_cash_flow_EmptyReserve(c) ==
    LET burn == c.monthly_expense + c.emi IN
    [surplus |-> c.monthly_income
                 - (c.monthly_expense + c.existing_sips + c.recommended_sip + c.emi),
     runway_months |-> IF burn # 0 THEN [num |-> c.cash_reserve, den |-> burn]
                                   ELSE IF c.cash_reserve = 0 THEN [num |-> 0, den |-> 1]
                                   ELSE Infinity,
     savings_rate |-> IF c.monthly_income # 0
                      THEN [num |-> Max(c.monthly_income - c.monthly_expense, 0),
                            den |-> c.monthly_income]
                      ELSE [num |-> 0, den |-> 1],
     recommended_sip |-> c.recommended_sip]

summarize_cash_flow(c) ==
    LET burn == c.monthly_expense + c.emi IN
    [surplus |-> c.monthly_income
                 - (c.monthly_expense + c.existing_sips + c.recommended_sip + c.emi),
     runway_months |-> IF burn # 0 THEN [num |-> c.cash_reserve, den |-> burn]
                                   ELSE Infinity,
     savings_rate |-> IF c.monthly_income # 0
                      THEN [num |-> Max(c.monthly_income - c.monthly_expense, 0),
                            den |-> c.monthly_income]
                      ELSE [num |-> 0, den |-> 1],
     recommended_sip |-> c.recommended_sip]

\* The thin-surplus rule with <= for <.
SurplusAlerts_Inclusive(surplus) ==
    IF surplus < 0 THEN <<"deficit">>
    ELSE IF surplus <= 5000 THEN <<"thin_surplus">>
    ELSE <<>>

\* if surplus < 0: ... elif surplus < 5000: ...
SurplusAlerts(surplus) ==
    IF surplus < 0 THEN <<"deficit">>
    ELSE IF surplus < 5000 THEN <<"thin_surplus">>
    ELSE <<>>

\* if runway < 3: ...
RunwayAlerts(runway) ==
    IF RatLess(runway, 3, 1) THEN <<"low_reserve">> ELSE <<>>

\* if cash_summary["savings_rate"] < 0.2: ...
SavingsAlerts(rate) ==
    IF RatLess(rate, 1, 5) THEN <<"low_savings">> ELSE <<>>

\* The savings rule taken before the reserve rule.
predictive_alerts_SavingsFirst(summary) ==
    LET fired == SurplusAlerts(summary.surplus)
                 \o SavingsAlerts(summary.savings_rate)
                 \o RunwayAlerts(summary.runway_months)
    IN IF fired = <<>> THEN <<"healthy">> ELSE fired

predictive_alerts(summary) ==
    LET fired == SurplusAlerts(summary.surplus)
                 \o RunwayAlerts(summary.runway_months)
                 \o SavingsAlerts(summary.savings_rate)
    IN IF fired = <<>> THEN <<"healthy">> ELSE fired

CashInit ==
    /\ cash \in CashInputs
    /\ InsightIdle
    /\ cash_summary = <<>>
    /\ cash_alerts = <<>>
    /\ TablesEmpty
    /\ pc = <<>>
    /\ local = <<>>
    /\ PlanIdle
    /\ BackendIdle
    /\ MatcherIdle

SummarizeCashFlow ==
    /\ cash_summary = <<>>
    /\ cash_summary' = summarize_cash_flow(cash)
    /\ UNCHANGED <<cash, cash_alerts, insightVars, nonCashVars>>

PredictiveAlerts ==
    /\ cash_summary # <<>>
    /\ cash_alerts = <<>>
    /\ cash_alerts' = predictive_alerts(cash_summary)
    /\ UNCHANGED <<cash, cash_summary, insightVars, nonCashVars>>

CashNext ==
    \/ SummarizeCashFlow
    \/ PredictiveAlerts

SpecCash == CashInit /\ [][CashNext]_vars

(***************************************************************************)
(* behavior_insights (financial_engine.py): the spend table, the monthly   *)
(* income and the transaction table give an ordered list of insights.      *)
(* Amounts are whole rupees, so the shares and the ratio are compared with *)
(* their thresholds as fractions.                                          *)
(***************************************************************************)
MaxSpendRows == 4

SpendAmounts == {0, 1000, 3000, 7000}

Incomes == {0 - 5000, 0, 5000, 10000}

\* Row i of the spend editor: the first two rows are essentials.
CategoryNames == <<"Rent", "Groceries", "Dining", "Travel", "Shopping">>

SpendRow(i, amount) ==
    [category |-> CategoryNames[i],
     type     |-> IF i <= 2 THEN "Essential" ELSE "Discretionary",
     amount   |-> amount]

SpendFrames ==
    UNION { { [i \in 1..n |-> SpendRow(i, f[i])] : f \in [1..n -> SpendAmounts] }
            : n \in 0..MaxSpendRows }

\* txn_df: None, or a table of rows of category and amount.
NoFrame == [frame |-> FALSE]

Frame(rows) == [frame |-> TRUE, rows |-> rows]

TxnFrames ==
    { NoFrame,
      Frame(<<>>),
      Frame(<<[category |-> "Groceries", amount |-> 500]>>),
      Frame(<<[category |-> "Home EMI", amount |-> 2000],
              [category |-> "Groceries", amount |-> 500]>>),
      Frame(<<[category |-> "sip", amount |-> 1000],
              [category |-> "Home EMI", amount |-> 2000],
              [category |-> "sip", amount |-> 1500]>>),
      Frame(<<[category |-> "Premium", amount |-> 300]>>) }

BehaviorInputs ==
    [spend_df : SpendFrames, monthly_income : Incomes, txn_df : TxnFrames]

\* str.contains("EMI|SIP", case=False): the pattern is searched for anywhere
\* in the category, whatever the case of its letters.
ContainsEmiOrSip(category) ==
    category \in {"Home EMI", "sip", "Premium"}

RECURSIVE AmountSum(_)
AmountSum(rows) ==
    IF rows = <<>> THEN 0 ELSE rows[1].amount + AmountSum(Tail(rows))

\* num / den > p / q, for a positive q and a non-zero den.
RatioAbove(num, den, p, q) ==
    IF den > 0 THEN num * q > p * den ELSE num * q < p * den

\* spend_df.loc[spend_df["type"] == "Essential", "amount"].sum()
EssentialSpend(spend_df) ==
    AmountSum(SelectSeq(spend_df, LAMBDA row : row.type = "Essential"))

\* The rows that sort_values("share", ascending=False) may put first: the
\* rows of the largest amount (the order of equal shares is the sort's).
TopRows(spend_df) ==
    { i \in 1..Len(spend_df) :
        \A j \in 1..Len(spend_df) : spend_df[j].amount <= spend_df[i].amount }

EssentialsInsight(spend_df, monthly_income) ==
    IF monthly_income # 0
       /\ RatioAbove(EssentialSpend(spend_df), monthly_income, 6, 10)
    THEN <<[rule |-> "essentials"]>>
    ELSE <<>>

\* A total of zero leaves every share NaN, and NaN > 0.3 is False.
TopCategoryInsight(spend_df, top) ==
    IF spend_df # <<>>
       /\ AmountSum(spend_df) # 0
       /\ RatioAbove(spend_df[top].amount, AmountSum(spend_df), 3, 10)
    THEN <<[rule |-> "top_category", about |-> spend_df[top].category]>>
    ELSE <<>>

\* txn_df[txn_df["category"].str.contains("EMI|SIP", case=False)]
Recurring(txn_df) ==
    SelectSeq(txn_df.rows, LAMBDA row : ContainsEmiOrSip(row.category))

\* .groupby("category")["amount"].sum(), and the idxmax() of it.
RecurringLabel(txn_df) ==
    LET rows == Recurring(txn_df)
        group(c) == AmountSum(SelectSeq(rows, LAMBDA row : row.category = c))
        labels == { rows[i].category : i \in 1..Len(rows) }
    IN CHOOSE c \in labels : \A d \in labels : group(d) <= group(c)

RecurringInsight(txn_df) ==
    IF txn_df.frame /\ txn_df.rows # <<>> /\ Recurring(txn_df) # <<>>
    THEN <<[rule |-> "recurring", about |-> RecurringLabel(txn_df)]>>
    ELSE <<>>

Balanced == <<[rule |-> "balanced"]>>

\* The recurring debit looked for before the essentials and the top category.
behavior_insights_RecurringFirst(spend_df, monthly_income, txn_df, top) ==
    LET insights == RecurringInsight(txn_df)
                    \o EssentialsInsight(spend_df, monthly_income)
                    \o TopCategoryInsight(spend_df, top)
    IN [top_category |-> IF spend_df = <<>> THEN "Spending"
                         ELSE spend_df[top].category,
        insights |-> IF insights = <<>> THEN Balanced ELSE insights]

\* top is the row the sort put first (any, where spend_df is empty).
behavior_insights(spend_df, monthly_income, txn_df, top) ==
    LET insights == EssentialsInsight(spend_df, monthly_income)
                    \o TopCategoryInsight(spend_df, top)
                    \o RecurringInsight(txn_df)
    IN [top_category |-> IF spend_df = <<>> THEN "Spending"
                         ELSE spend_df[top].category,
        insights |-> IF insights = <<>> THEN Balanced ELSE insights]

InsightInit ==
    /\ spend_input \in BehaviorInputs
    /\ behavior = <<>>
    /\ cash = <<>>
    /\ cash_summary = <<>>
    /\ cash_alerts = <<>>
    /\ TablesEmpty
    /\ pc = <<>>
    /\ local = <<>>
    /\ PlanIdle
    /\ BackendIdle
    /\ MatcherIdle

BehaviorInsights ==
    /\ behavior = <<>>
    /\ \E top \in IF spend_input.spend_df = <<>> THEN {0}
                  ELSE TopRows(spend_input.spend_df) :
         behavior' = behavior_insights(spend_input.spend_df,
                                       spend_input.monthly_income,
                                       spend_input.txn_df, top)
    /\ UNCHANGED <<spend_input, cash, cash_summary, cash_alerts, nonCashVars>>

InsightNext ==
    \/ BehaviorInsights

SpecInsights == InsightInit /\ [][InsightNext]_vars

(***************************************************************************)
(* financial_engine.py: goal planning.  The Streamlit page runs            *)
(* build_goal_plans anew each time the risk slider or the environment of   *)
(* the LLM explanation changes.                                            *)
(***************************************************************************)

MaxYears == 2
MaxPlanGoals == 2

RiskScores == 1..5

\* A cell of the goal editor that float() rejects.
Unparseable == [text |-> "n/a"]

\* The rows of the goal editor: a cell that is no number, a goal a month
\* away, and goals whole years away.
GoalChoices ==
    {[goal |-> "g", target_amount |-> Unparseable, years |-> FromInt(1)],
     [goal |-> "g", target_amount |-> FromInt(1000), years |-> Decimal(1, 10)]}
    \cup {[goal |-> "g", target_amount |-> FromInt(1000000), years |-> FromInt(y)] :
             y \in 1..MaxYears}

GoalRowLists ==
    UNION {[1..n -> GoalChoices] : n \in 1..MaxPlanGoals}

\* What a run can meet on the way to an LLM explanation: USE_LLM_EXPLAIN,
\* the openai package, OPENAI_API_KEY, and the outcome of the API call.
LlmOutcomes ==
    {[flag |-> FALSE, package |-> TRUE, key |-> TRUE, call |-> "text"],
     [flag |-> TRUE, package |-> FALSE, key |-> TRUE, call |-> "text"],
     [flag |-> TRUE, package |-> TRUE, key |-> FALSE, call |-> "text"],
     [flag |-> TRUE, package |-> TRUE, key |-> TRUE, call |-> "raises"],
     [flag |-> TRUE, package |-> TRUE, key |-> TRUE, call |-> "empty"],
     [flag |-> TRUE, package |-> TRUE, key |-> TRUE, call |-> "text"]}

None == "None"
Raised == "raised"

_use_llm_explanations(env) == env.flag

\* The API call without the try/except around it.
explain_plan_with_llm_Unguarded(env) ==
    IF ~env.package THEN None
    ELSE IF ~env.key THEN None
    ELSE IF env.call = "raises" THEN Raised
    ELSE IF env.call = "empty" THEN ""
    ELSE "narrative"

explain_plan_with_llm(env) ==
    IF ~env.package THEN None
    ELSE IF ~env.key THEN None
    ELSE IF env.call = "raises" THEN None
    ELSE IF env.call = "empty" THEN ""
    ELSE "narrative"

\* mapping = {1: 0.065, 2: 0.08, 3: 0.105, 4: 0.12, 5: 0.145}
RiskMapping ==
    <<Decimal(65, 1000), Decimal(8, 100), Decimal(105, 1000), Decimal(12, 100),
      Decimal(145, 1000)>>

DefaultReturn == Decimal(1, 10)

\* The mapping read from its other end.
_annual_return_from_risk_Reversed(score) ==
    IF score \in DOMAIN RiskMapping THEN RiskMapping[Len(RiskMapping) + 1 - score]
    ELSE DefaultReturn

_annual_return_from_risk(score) ==
    IF score \in DOMAIN RiskMapping THEN RiskMapping[score] ELSE DefaultReturn

\* months = max(int(years * 12), 1)
Months(years) == Max(FTrunc(FMul(years, FromInt(12))), 1)

\* monthly_rate = max(annual_return / 12, 1e-4)
MonthlyRate(annual_return) ==
    FMax(FDiv(annual_return, FromInt(12)), Decimal(1, 10000))

\* The forward application taken on the growth factor itself.
Contribution_OnGrowthFactor(target_amount, monthly_rate, growth_less_one) ==
    LET monthly_investment == FDiv(FMul(target_amount, monthly_rate), growth_less_one)
    IN First(monthly_investment,
             [monthly_investment |-> monthly_investment,
              projected_value |-> FDiv(FMul(monthly_investment,
                                            FAdd(growth_less_one, FromInt(1))),
                                       monthly_rate)])

\* The contribution formula with the growth factor less one handed over,
\* and its forward application.
Contribution(target_amount, monthly_rate, growth_less_one) ==
    LET monthly_investment == FDiv(FMul(target_amount, monthly_rate), growth_less_one)
    IN First(monthly_investment,
             [monthly_investment |-> monthly_investment,
              projected_value |-> FDiv(FMul(monthly_investment, growth_less_one),
                                       monthly_rate)])

_sip_required(target_amount, years, annual_return) ==
    LET monthly_rate == MonthlyRate(annual_return)
        growth_factor == FPow(FAdd(FromInt(1), monthly_rate), Months(years))
    IN First(growth_factor,
             Contribution(target_amount, monthly_rate,
                          FSub(growth_factor, FromInt(1))))

Parseable(goal) == goal.target_amount # Unparseable

\* _sip_required for every goal of the editor and every risk score.  A run
\* of the model works these out once, at its start, and keeps them in
\* sip_results.
SipTable ==
    {[target_amount |-> g.target_amount, years |-> g.years, risk_score |-> r,
      sip |-> _sip_required(g.target_amount, g.years, _annual_return_from_risk(r))] :
        g \in {c \in GoalChoices : Parseable(c)}, r \in RiskScores}

SipRequired(goal, score) ==
    (CHOOSE row \in sip_results : /\ row.target_amount = goal.target_amount
                               /\ row.years = goal.years
                               /\ row.risk_score = score).sip

\* The f-string of the rule-based explanation, by the values it formats.
BaseExplanation(goal, score) ==
    [risk_rate |-> _annual_return_from_risk(score),
     target_amount |-> goal.target_amount,
     years |-> goal.years,
     monthly_investment |-> SipRequired(goal, score).monthly_investment]

\* if llm_text: explanation = f"{base_explanation} AI coach explanation: {llm_text}"
Explanation(base, llm_text) ==
    IF llm_text # None /\ llm_text # ""
    THEN <<base, [ai_coach_explanation |-> llm_text]>>
    ELSE <<base>>

\* What the loop gets for llm_text, or Raised when the call lets an
\* exception out.
LlmText(env) ==
    IF _use_llm_explanations(env) THEN explain_plan_with_llm(env) ELSE None

\* One pass of the loop for a goal whose numbers parse.
PlanFor(goal, score, env) ==
    [name |-> goal.goal,
     target_amount |-> goal.target_amount,
     years |-> goal.years,
     monthly_investment |-> SipRequired(goal, score).monthly_investment,
     projected_value |-> SipRequired(goal, score).projected_value,
     explanation |-> Explanation(BaseExplanation(goal, score), LlmText(env))]

RECURSIVE PlanLoop(_, _, _)
PlanLoop(rows, score, env) ==
    IF rows = <<>> THEN <<>>
    ELSE IF ~Parseable(Head(rows)) THEN PlanLoop(Tail(rows), score, env)
    ELSE <<PlanFor(Head(rows), score, env)>> \o PlanLoop(Tail(rows), score, env)

\* What the caller gets in place of a list when an exception leaves the loop.
Aborted == <<[aborted |-> TRUE]>>

\* The list of plans; an exception out of explain_plan_with_llm would leave
\* the loop at the first goal that parses.
build_goal_plans(rows, score, env) ==
    IF LlmText(env) = Raised /\ \E i \in DOMAIN rows : Parseable(rows[i])
    THEN Aborted
    ELSE PlanLoop(rows, score, env)

NoRun == [risk_score |-> 0, llm_env |-> <<>>, plans |-> <<>>]

PlanInit ==
    /\ sip_results = SipTable
    /\ goal_rows \in GoalRowLists
    /\ risk_score \in RiskScores
    /\ llm_env \in LlmOutcomes
    /\ plans = build_goal_plans(goal_rows, risk_score, llm_env)
    /\ prev_run = NoRun
    /\ RateIdle
    /\ TablesEmpty
    /\ pc = <<>>
    /\ local = <<>>
    /\ CashIdle
    /\ BackendIdle
    /\ MatcherIdle

\* The page is run again after the risk slider moved.
SetRiskScore(score) ==
    /\ score # risk_score
    /\ prev_run' = [risk_score |-> risk_score, llm_env |-> llm_env, plans |-> plans]
    /\ risk_score' = score
    /\ plans' = build_goal_plans(goal_rows, score, llm_env)
    /\ UNCHANGED <<sip_results, goal_rows, llm_env, rateVars, nonPlanVars>>

\* The page is run again with the LLM explanation meeting something else.
SetLlmOutcome(env) ==
    /\ env # llm_env
    /\ prev_run' = [risk_score |-> risk_score, llm_env |-> llm_env, plans |-> plans]
    /\ llm_env' = env
    /\ plans' = build_goal_plans(goal_rows, risk_score, env)
    /\ UNCHANGED <<sip_results, goal_rows, risk_score, rateVars, nonPlanVars>>

PlanNext ==
    \/ \E score \in RiskScores : SetRiskScore(score)
    \/ \E env \in LlmOutcomes : SetLlmOutcome(env)

SpecPlans == PlanInit /\ [][PlanNext]_vars

(***************************************************************************)
(* _annual_return_from_risk called on its own, with whatever a caller may  *)
(* hand it: an int, a float or None.                                       *)
(***************************************************************************)
MaxRiskInput == 15
MaxRiskTenths == 60

\* A Python number as the fraction it equals; None has none set.
PyInt(n) == [none |-> FALSE, num |-> n, den |-> 1]
PyTenths(t) == [none |-> FALSE, num |-> t, den |-> 10]
PyNone == [none |-> TRUE, num |-> 0, den |-> 1]

\* Ints on both sides of the mapping's keys, floats by tenths (3.7, and 3.0
\* as well), and None.
RiskInputs ==
    {PyInt(n) : n \in -MaxRiskInput..MaxRiskInput}
    \cup {PyTenths(t) : t \in 0..MaxRiskTenths}
    \cup {PyNone}

\* The key of the mapping that a dict lookup finds for the input, by hash and
\* equality (3.0 finds 3); 0, which is no key, when there is none.
KeyFound(input) ==
    IF input.none THEN 0
    ELSE IF \E k \in DOMAIN RiskMapping : input.num = k * input.den
    THEN CHOOSE k \in DOMAIN RiskMapping : input.num = k * input.den
    ELSE 0

RateInit ==
    /\ risk_input \in RiskInputs
    /\ rate_returned = <<>>
    /\ sip_results = {}
    /\ goal_rows = <<>>
    /\ risk_score = 0
    /\ llm_env = <<>>
    /\ plans = <<>>
    /\ prev_run = <<>>
    /\ TablesEmpty
    /\ pc = <<>>
    /\ local = <<>>
    /\ CashIdle
    /\ BackendIdle
    /\ MatcherIdle

\* return mapping.get(risk_score, 0.10)
AnnualReturnFromRisk ==
    /\ rate_returned = <<>>
    /\ rate_returned' = _annual_return_from_risk(KeyFound(risk_input))
    /\ UNCHANGED <<risk_input, sip_results, goal_rows, risk_score, llm_env, plans,
                   prev_run, nonPlanVars>>

RateNext ==
    \/ AnnualReturnFromRisk

SpecRate == RateInit /\ [][RateNext]_vars

(***************************************************************************)
(* build_goal_plans handed goals as a caller may write them: numbers of    *)
(* either sign, cells that are no numbers, a priority of None, a horizon   *)
(* of thousands of years.                                                  *)
(***************************************************************************)
MaxGoalInputs == 2
LongYears == 15000

\* The goal dicts a call may hold.
GoalInputs ==
    {[goal |-> "g", target_amount |-> Unparseable,
      years |-> Positive(FromInt(1)), priority |-> "medium"],
     [goal |-> "g", target_amount |-> Positive(FromInt(1000)),
      years |-> Unparseable, priority |-> "medium"],
     [goal |-> "g", target_amount |-> Signed(TRUE, FromInt(1000)),
      years |-> Positive(FromInt(1)), priority |-> "medium"],
     [goal |-> "g", target_amount |-> Positive(FromInt(1000)),
      years |-> Signed(TRUE, FromInt(1)), priority |-> "medium"],
     [goal |-> "g", target_amount |-> Positive(FromInt(1000)),
      years |-> Positive(FromInt(0)), priority |-> "medium"],
     [goal |-> "g", target_amount |-> Positive(FromInt(1000)),
      years |-> Positive(Decimal(99, 100)), priority |-> "medium"],
     [goal |-> "g", target_amount |-> Positive(FromInt(1000000)),
      years |-> Positive(FromInt(1)), priority |-> "medium"],
     [goal |-> "g", target_amount |-> Positive(FromInt(1000)),
      years |-> Positive(FromInt(LongYears)), priority |-> "medium"],
     [goal |-> "g", target_amount |-> Positive(FromInt(1000)),
      years |-> Positive(FromInt(1)), priority |-> None]}

GoalInputLists ==
    UNION {[1..n -> GoalInputs] : n \in 1..MaxGoalInputs}

\* float() took both cells.
BothParse(goal) == goal.target_amount # Unparseable /\ goal.years # Unparseable

\* max(int(years * 12), 1) for years of either sign: int() truncates
\* towards zero.
SignedMonths(years) == IF years.neg THEN 1 ELSE Months(years.abs)

\* base ** n by binary powering, every product rounded: within a few
\* thousand units in the last place of the rounded power for the n here.
RECURSIVE PowerBySquaring(_, _, _)
PowerBySquaring(base, n, acc) ==
    IF n = 0 THEN acc
    ELSE CHOOSE power \in
             {PowerBySquaring(FMul(b, b), n \div 2,
                              IF n % 2 = 1 THEN FMul(a, b) ELSE a) :
                  b \in {base}, a \in {acc}} : TRUE

\* The largest exponent of two below which a float stays finite.
MaxExponent == 1024

\* float ** int raises OverflowError once the power is 2^1024 or more.
PowOverflows(base, n) ==
    LET power == PowerBySquaring(base, n, FromInt(1))
    IN BLen(power.m) + power.e > MaxExponent

\* _sip_required on numbers of either sign: the sign of target_amount goes
\* through the product and the quotients, years below zero give one month.
SignedSip(target_amount, years, annual_return) ==
    LET sip == _sip_required(target_amount.abs,
                             IF years.neg THEN FromInt(0) ELSE years.abs,
                             annual_return)
    IN [monthly_investment |-> Signed(target_amount.neg, sip.monthly_investment),
        projected_value |-> Signed(target_amount.neg, sip.projected_value)]

\* One pass of the loop of build_goal_plans: continue, an exception that
\* leaves the function, or the numbers of a plan.
GoalOutcome(goal, score) ==
    IF ~BothParse(goal) THEN [kind |-> "continue"]
    ELSE IF goal.priority = None THEN [kind |-> "AttributeError"]
    ELSE IF PowOverflows(FAdd(FromInt(1),
                              MonthlyRate(_annual_return_from_risk(score))),
                         SignedMonths(goal.years))
    THEN [kind |-> "OverflowError"]
    ELSE [kind |-> "plan",
          months |-> SignedMonths(goal.years),
          sip |-> SignedSip(goal.target_amount, goal.years,
                            _annual_return_from_risk(score))]

\* GoalOutcome for every goal dict and every risk score, worked out once.
GoalOutcomeTable ==
    {[goal |-> g, risk_score |-> r, outcome |-> GoalOutcome(g, r)] :
        g \in GoalInputs, r \in RiskScores}

OutcomeOf(goal, score) ==
    (CHOOSE row \in sip_results : row.goal = goal /\ row.risk_score = score).outcome

GoalPlan(goal, score, env) ==
    [name |-> goal.goal,
     target_amount |-> goal.target_amount,
     years |-> goal.years,
     priority |-> goal.priority,
     monthly_investment |-> OutcomeOf(goal, score).sip.monthly_investment,
     projected_value |-> OutcomeOf(goal, score).sip.projected_value,
     explanation |->
         Explanation([risk_rate |-> _annual_return_from_risk(score),
                      target_amount |-> goal.target_amount,
                      years |-> goal.years,
                      monthly_investment |->
                          OutcomeOf(goal, score).sip.monthly_investment],
                     LlmText(env))]

RECURSIVE PlanEach(_, _, _)
PlanEach(rows, score, env) ==
    IF rows = <<>> THEN <<>>
    ELSE IF OutcomeOf(Head(rows), score).kind = "continue"
    THEN PlanEach(Tail(rows), score, env)
    ELSE <<GoalPlan(Head(rows), score, env)>> \o PlanEach(Tail(rows), score, env)

\* The exceptions that leave build_goal_plans.
Exceptions == {"AttributeError", "OverflowError"}

\* build_goal_plans on any goal dicts: the list of plans, or Aborted when a
\* pass of the loop raises.
BuildPlans(rows, score, env) ==
    IF \E i \in DOMAIN rows : OutcomeOf(rows[i], score).kind \in Exceptions
    THEN Aborted
    ELSE PlanEach(rows, score, env)

\* build_goal_plans not called yet.
NotCalled == <<[called |-> FALSE]>>

GoalsInit ==
    /\ sip_results = GoalOutcomeTable
    /\ goal_rows \in GoalInputLists
    /\ risk_score \in RiskScores
    /\ llm_env = [flag |-> FALSE, package |-> TRUE, key |-> TRUE, call |-> "text"]
    /\ plans = NotCalled
    /\ prev_run = NoRun
    /\ RateIdle
    /\ TablesEmpty
    /\ pc = <<>>
    /\ local = <<>>
    /\ CashIdle
    /\ BackendIdle
    /\ MatcherIdle

BuildGoalPlans ==
    /\ plans = NotCalled
    /\ plans' = BuildPlans(goal_rows, risk_score, llm_env)
    /\ UNCHANGED <<sip_results, goal_rows, risk_score, llm_env, prev_run, rateVars,
                   nonPlanVars>>

GoalsNext ==
    \/ BuildGoalPlans

SpecGoals == GoalsInit /\ [][GoalsNext]_vars


(***************************************************************************)
(* app/services/recommendation_service.py: product recommendations of the  *)
(* backend.  Scores are Python floats.  The users and products tables are  *)
(* written by no request; they are as seeded.                              *)
(***************************************************************************)

MaxProducts == 3
MaxLimit == 20

\* A nullable numeric column holding NULL.
Null == -1

\* users.age, users.income, users.risk_tolerance: all nullable.
UserProfiles ==
    { [age |-> a, income |-> i, risk_tolerance |-> r] :
        a \in {Null, 25, 55}, i \in {Null, UserIncome(Owner)},
        r \in {None, "conservative", "moderate", "aggressive"} }

\* A row of the users table: the profile columns and the primary key.
UserRow(id, p) ==
    [id |-> id, age |-> p.age, income |-> p.income, risk_tolerance |-> p.risk_tolerance]

\* The user_profile dict built from a row.
UserProfile(user) ==
    [age |-> user.age, income |-> user.income, risk_tolerance |-> user.risk_tolerance]

\* The columns of a product the score reads.
ProductKinds ==
    { [product_type |-> "mutual_fund", risk_level |-> "medium",
       min_investment |-> 500, annual_fee |-> Null, rewards_type |-> None],
      [product_type |-> "fixed_deposit", risk_level |-> "low",
       min_investment |-> 100000, annual_fee |-> Null, rewards_type |-> None],
      [product_type |-> "stock", risk_level |-> "high",
       min_investment |-> Null, annual_fee |-> Null, rewards_type |-> None],
      [product_type |-> "credit_card", risk_level |-> "low",
       min_investment |-> Null, annual_fee |-> 150, rewards_type |-> "cashback"] }

\* A row of the products table: the columns and the primary key.
ProductRow(kind, id) == [columns |-> kind, id |-> id]

\* The products tables of the model: up to MaxProducts products, no two alike.
ProductTables ==
    UNION { { [i \in 1..n |-> ProductRow(t[i], i)] :
              t \in { f \in [1..n -> ProductKinds] :
                         \A i, j \in 1..n : f[i] = f[j] => i = j } } :
            n \in 0..MaxProducts }

\* Goals of the seeded tables: one a month away, one more than a year away,
\* and one of another user.
SeededGoals ==
    << [id |-> 1, user_id |-> Owner, status |-> "active",
        created_at |-> StartDay, target_date |-> StartDay + 28],
       [id |-> 2, user_id |-> Owner, status |-> "active",
        created_at |-> StartDay, target_date |-> StartDay + 400],
       [id |-> 3, user_id |-> CHOOSE u \in Users : u # Owner, status |-> "active",
        created_at |-> StartDay, target_date |-> StartDay + 400] >>

\* goal_horizon_months stays None.
NoHorizon == [num |-> 0, den |-> 1]

\* max(delta_days / 30, 1), kept as numerator and denominator: the score
\* only compares it with 12, which the rounded quotient does not move across.
HorizonMonths(delta_days) ==
    IF delta_days > 0
    THEN IF delta_days >= DaysPerMonth THEN [num |-> delta_days, den |-> DaysPerMonth]
         ELSE [num |-> 1, den |-> 1]
    ELSE NoHorizon

\* db.query(Goal).filter(Goal.id == goal_id, Goal.user_id == user_id).first()
\* and the horizon taken from it; goal_id 0 stands for no goal_id.
GoalHorizon(gs, goal_id, user_id) ==
    LET found == { i \in 1..Len(gs) : gs[i].id = goal_id /\ gs[i].user_id = user_id }
    IN IF goal_id = 0 \/ found = {} THEN NoHorizon
       ELSE LET g == gs[CHOOSE i \in found : \A j \in found : i <= j]
            IN HorizonMonths(g.target_date - g.created_at)

Horizons ==
    {NoHorizon} \cup { HorizonMonths(SeededGoals[i].target_date - SeededGoals[i].created_at) :
                       i \in 1..Len(SeededGoals) }
                \cup { HorizonMonths(d - StartDay) : d \in GoalDates }

\* ord(value[0]) of the RiskLevel values
Ord(risk_level) ==
    CASE risk_level = "low" -> 108
      [] risk_level = "medium" -> 109
      [] risk_level = "high" -> 104

Abs(n) == IF n < 0 THEN -n ELSE n

\* risk_mapping.get(...): None for a tolerance that is no key of the mapping
UserRisk(risk_tolerance) ==
    CASE risk_tolerance = "conservative" -> "low"
      [] risk_tolerance = "moderate" -> "medium"
      [] risk_tolerance = "aggressive" -> "high"
      [] OTHER -> None

\* The call raised instead of returning.
ScoreRaised == [raised |-> TRUE]

\* The float 0.5: 1 * 2^-1
Half == [m |-> <<1>>, e |-> -1]

\* score += bonus when cond
Plus(score, cond, bonus) == IF cond THEN FAdd(score, bonus) ELSE score

\* The sum without min(score, 1.0).
ScoreSum_Unclamped(risk_fit, income_hit, age_hit, horizon_hit, fee_hit, rewards_hit) ==
    LET s0 == Plus(Half, risk_fit = "same", Decimal(3, 10))
        s1 == Plus(s0, risk_fit = "adjacent", Decimal(15, 100))
        s2 == Plus(s1, income_hit, Decimal(1, 10))
        s3 == Plus(s2, age_hit, Decimal(1, 10))
        s4 == Plus(s3, horizon_hit, Decimal(1, 10))
        s5 == Plus(s4, fee_hit, Decimal(5, 100))
    IN Plus(s5, rewards_hit, Decimal(5, 100))

\* The sum the score reaches from 0.5, bonus by bonus in the order of the code,
\* and min(score, 1.0) of it.
ScoreSum(risk_fit, income_hit, age_hit, horizon_hit, fee_hit, rewards_hit) ==
    LET s0 == Plus(Half, risk_fit = "same", Decimal(3, 10))
        s1 == Plus(s0, risk_fit = "adjacent", Decimal(15, 100))
        s2 == Plus(s1, income_hit, Decimal(1, 10))
        s3 == Plus(s2, age_hit, Decimal(1, 10))
        s4 == Plus(s3, horizon_hit, Decimal(1, 10))
        s5 == Plus(s4, fee_hit, Decimal(5, 100))
        s6 == Plus(s5, rewards_hit, Decimal(5, 100))
    IN FMin(s6, FromInt(1))

\* if user_profile.get("income"): an income that is set and not 0
HasIncome(user_profile) == user_profile.income # Null /\ user_profile.income # 0

\* if product.min_investment: a minimum that is set and not 0
HasMinimum(product) == product.min_investment # Null /\ product.min_investment # 0

\* The risk bonus the code gives: "same" for + 0.3, "adjacent" for + 0.15.
RiskFit(risk_level, user_risk) ==
    IF risk_level = user_risk THEN "same"
    ELSE IF Abs(Ord(risk_level) - Ord(user_risk)) = 1 THEN "adjacent"
    ELSE "apart"

\* The income bonus is given.
IncomeHit(product, user_profile) ==
    HasIncome(user_profile) /\
    IF HasMinimum(product)
    THEN ~FLess(FMul(FromInt(user_profile.income), Decimal(1, 10)),
                FromInt(product.min_investment))
    ELSE TRUE

\* The age bonus is given.
AgeHit(product, user_profile) ==
    IF user_profile.age < 30 /\ product.product_type \in {"mutual_fund", "sip"}
    THEN TRUE
    ELSE user_profile.age > 50 /\ product.product_type \in {"fixed_deposit", "ppf"}

\* The goal-horizon bonus is given.
HorizonHit(product, goal_horizon_months) ==
    goal_horizon_months # NoHorizon /\
    IF goal_horizon_months.num <= 12 * goal_horizon_months.den
    THEN product.product_type \in {"fixed_deposit", "recurring_deposit", "credit_card"}
    ELSE product.product_type \in {"mutual_fund", "sip", "insurance", "ppf"}

\* The annual-fee bonus of a credit card is given.
FeeHit(product, user_profile) ==
    /\ product.product_type = "credit_card"
    /\ HasIncome(user_profile)
    /\ product.annual_fee # Null /\ product.annual_fee # 0
    /\ FLess(FromInt(product.annual_fee),
             FMul(FromInt(user_profile.income), Decimal(2, 100)))

\* The rewards bonus of a credit card is given.
RewardsHit(product) ==
    product.product_type = "credit_card" /\ product.rewards_type # None

\* RecommendationService._calculate_match_score.  It raises on a user whose
\* risk_tolerance is no key of the mapping, and on a user without an age.
_calculate_match_score(product, user_profile, goal_horizon_months) ==
    IF UserRisk(user_profile.risk_tolerance) = None \/ user_profile.age = Null
    THEN ScoreRaised
    ELSE ScoreSum(RiskFit(product.risk_level, UserRisk(user_profile.risk_tolerance)),
                  IncomeHit(product, user_profile),
                  AgeHit(product, user_profile),
                  HorizonHit(product, goal_horizon_months),
                  FeeHit(product, user_profile),
                  RewardsHit(product))

\* Every score the requests of the model ask for.
MatchScoreTable ==
    [k \in ProductKinds, r \in UserProfiles, h \in Horizons |->
        _calculate_match_score(k, r, h)]

\* The score of a stored product for a stored user.
MatchScore(product, user, horizon) ==
    match_scores[product.columns, UserProfile(user), horizon]

\* What the text-generation call of a request does: return text, or raise
\* (missing credential, network error, exception from the client).
LlmCalls == {"text", "raises"}

\* What a request answers: status "ok" with a body, "error" for an exception
\* that left the handler, "not_found" for the 404 of the chat endpoint.
Reply(op, user_id, args, status, llm_failed, body) ==
    [op |-> op, user_id |-> user_id, args |-> args, status |-> status,
     llm_failed |-> llm_failed, body |-> body]

\* match_score >= 0.5
Recommendable_Inclusive(match_score) == ~FLess(match_score, Half)

\* match_score > 0.5
Recommendable(match_score) == FLess(Half, match_score)

\* The loop over the products: the recommendations gathered, or the
\* exception of the score or of the reasoning call.
RECURSIVE RecommendationLoop(_, _, _, _, _)
RecommendationLoop(ps, user, horizon, llm, acc) ==
    IF ps = <<>> THEN [raised |-> FALSE, llm_failed |-> FALSE, recommendations |-> acc]
    ELSE LET product == Head(ps)
             match_score == MatchScore(product, user, horizon)
         IN IF match_score = ScoreRaised
            THEN [raised |-> TRUE, llm_failed |-> FALSE, recommendations |-> <<>>]
            ELSE IF Recommendable(match_score)
            THEN IF llm = "raises"
                 THEN [raised |-> TRUE, llm_failed |-> TRUE, recommendations |-> <<>>]
                 ELSE RecommendationLoop(Tail(ps), user, horizon, llm,
                          Append(acc, [product |-> product,
                                       match_score |-> match_score,
                                       reasoning |-> llm]))
            ELSE RecommendationLoop(Tail(ps), user, horizon, llm, acc)

\* The order an ascending sort leaves once reversed: ties come out backwards.
DescendingOrder_Reversed(above) ==
    LET n == Len(above)
        Tied(i, j) == ~above[i][j] /\ ~above[j][i]
        ranks == AsSeq([i \in 1..n |->
                     Cardinality({ j \in 1..n : above[j][i] })
                     + Cardinality({ j \in (i + 1)..n : Tied(i, j) }) + 1])
    IN [r \in 1..n |-> CHOOSE i \in 1..n : ranks[i] = r]

\* The order a sort without reverse=True leaves: ascending.
DescendingOrder_Ascending(above) ==
    LET n == Len(above)
        Tied(i, j) == ~above[i][j] /\ ~above[j][i]
        ranks == AsSeq([i \in 1..n |->
                     Cardinality({ j \in 1..n : above[i][j] })
                     + Cardinality({ j \in 1..(i - 1) : Tied(i, j) }) + 1])
    IN [r \in 1..n |-> CHOOSE i \in 1..n : ranks[i] = r]

\* The order list.sort(reverse=True) and sorted(..., reverse=True) leave:
\* descending, and elements of equal key stay in their order.  above[i][j]:
\* the key of element i is greater than the key of element j.  The result
\* lists the old places of the elements, first to last.
DescendingOrder(above) ==
    LET n == Len(above)
        Tied(i, j) == ~above[i][j] /\ ~above[j][i]
        ranks == AsSeq([i \in 1..n |->
                     Cardinality({ j \in 1..n : above[j][i] })
                     + Cardinality({ j \in 1..(i - 1) : Tied(i, j) }) + 1])
    IN [r \in 1..n |-> CHOOSE i \in 1..n : ranks[i] = r]

\* items sorted with reverse=True on a key; keys[i] is the key of items[i].
StableDescending(items, keys) ==
    LET n == Len(items)
        above == AsSeq([i \in 1..n |->
                     AsSeq([j \in 1..n |-> SLess(keys[j], keys[i])])])
        order == DescendingOrder(above)
    IN [r \in 1..n |-> items[order[r]]]

\* items[:limit]
Truncated(items, limit) == SubSeq(items, 1, Min(limit, Len(items)))

\* key=lambda x: x.match_score
MatchKeys(recommendations) ==
    [i \in 1..Len(recommendations) |-> Positive(recommendations[i].match_score)]

\* RecommendationService.get_recommendations
get_recommendations(us, ps, gs, user_id, goal_id, limit, llm) ==
    LET found == { i \in 1..Len(us) : us[i].id = user_id }
        args == <<goal_id, limit>>
    IN IF found = {}
       THEN Reply("get_recommendations", user_id, args, "ok", FALSE, <<>>)
       ELSE LET user == us[CHOOSE i \in found : TRUE]
                r == RecommendationLoop(ps, user, GoalHorizon(gs, goal_id, user_id),
                                        llm, <<>>)
            IN IF r.raised
               THEN Reply("get_recommendations", user_id, args, "error",
                          r.llm_failed, <<>>)
               ELSE Reply("get_recommendations", user_id, args, "ok", FALSE,
                          Truncated(StableDescending(r.recommendations,
                                                     MatchKeys(r.recommendations)),
                                    limit))

\* The limits a client asks for: Query(5, ge=1, le=20).
Limits == {1, MaxLimit}

\* The calls the model serves: for the stored user with any goal_id, limit
\* and outcome of the reasoning call, and for a user that is not stored.
Requests ==
    { [user_id |-> Owner, goal_id |-> g, limit |-> l, llm |-> c] :
        g \in 0..Len(SeededGoals), l \in Limits, c \in LlmCalls }
    \cup { [user_id |-> u, goal_id |-> 0, limit |-> 1, llm |-> "text"] :
             u \in Users \ {Owner} }

\* The seeded tables with any user row and any products, and a call to serve.
RecommendInit ==
    /\ match_scores = MatchScoreTable
    /\ users \in { <<UserRow(Owner, p)>> : p \in UserProfiles }
    /\ products \in ProductTables
    /\ request \in Requests
    /\ goals = SeededGoals
    /\ nextGoalId = Len(SeededGoals) + 1
    /\ now = StartDay
    /\ transactions = <<>>
    /\ obligations = <<>>
    /\ alerts = <<>>
    /\ nextObligationId = 1
    /\ last = Idle
    /\ pc = <<>>
    /\ local = <<>>
    /\ conversations = <<>>
    /\ messages = <<>>
    /\ reply = <<>>
    /\ CashIdle
    /\ PlanIdle
    /\ MatcherIdle

\* GET /recommendations
GetRecommendations(u, goal_id, limit, llm) ==
    /\ reply' = get_recommendations(users, products, goals, u, goal_id, limit, llm)
    /\ UNCHANGED <<users, products, match_scores, conversations, messages, request,
                   alertVars, raceVars, cashVars, planVars, matcherVars>>

\* The call drawn is served.
ServeRequest ==
    /\ reply = <<>>
    /\ GetRecommendations(request.user_id, request.goal_id, request.limit, request.llm)

RecommendNext ==
    \/ ServeRequest

SpecRecommend == RecommendInit /\ [][RecommendNext]_vars

(***************************************************************************)
(* The requests that call the text-generation service: POST /goals,        *)
(* GET /budgeting/insights, GET /recommendations and POST /chat.  None of  *)
(* AIService's awaits of llm.ainvoke is inside a try, and neither is any   *)
(* of its callers.                                                         *)
(***************************************************************************)

MaxConversations == 2
MaxMessages == 4

\* The users and products the text requests are served with.
SeededUsers ==
    << UserRow(1, [age |-> 25, income |-> UserIncome(1),
                   risk_tolerance |-> "moderate"]),
       UserRow(2, [age |-> 55, income |-> Null, risk_tolerance |-> "conservative"]) >>

SeededProducts ==
    << ProductRow([product_type |-> "stock", risk_level |-> "high",
                   min_investment |-> Null, annual_fee |-> Null,
                   rewards_type |-> None], 1),
       ProductRow([product_type |-> "mutual_fund", risk_level |-> "medium",
                   min_investment |-> 500, annual_fee |-> Null,
                   rewards_type |-> None], 2) >>

AiInit ==
    /\ match_scores = MatchScoreTable
    /\ users = SeededUsers
    /\ products = SeededProducts
    /\ TablesEmpty
    /\ pc = <<>>
    /\ local = <<>>
    /\ conversations = <<>>
    /\ messages = <<>>
    /\ request = <<>>
    /\ reply = <<>>
    /\ CashIdle
    /\ PlanIdle
    /\ MatcherIdle

\* POST /goals: GoalService.create_goal awaits understand_goal before it adds
\* the row.
CreateGoalWithPlan(u, d, llm) ==
    /\ Len(goals) < MaxGoals
    /\ IF llm = "raises"
       THEN /\ reply' = Reply("create_goal", u, <<d>>, "error", TRUE, <<>>)
            /\ UNCHANGED <<goals, nextGoalId>>
       ELSE LET db_goal == [id |-> nextGoalId, user_id |-> u, status |-> "active",
                            created_at |-> now, target_date |-> d]
            IN /\ goals' = Append(goals, db_goal)
               /\ nextGoalId' = nextGoalId + 1
               /\ reply' = Reply("create_goal", u, <<d>>, "ok", FALSE, <<db_goal>>)
    /\ UNCHANGED <<now, transactions, obligations, alerts, nextObligationId, last,
                   users, products, match_scores, conversations, messages, request,
                   raceVars, cashVars, planVars, matcherVars>>

\* BudgetService.get_budget_insights for the current month.
get_budget_insights(u, llm) ==
    IF llm = "raises"
    THEN Reply("get_budget_insights", u, <<>>, "error", TRUE, <<>>)
    ELSE LET total_income == SumAmount(transactions, u, "income", StartOfMonth)
             total_expenses == SumAmount(transactions, u, "expense", StartOfMonth)
         IN Reply("get_budget_insights", u, <<>>, "ok", FALSE,
                  <<[total_income |-> total_income,
                     total_expenses |-> total_expenses,
                     net |-> total_income - total_expenses,
                     ai_insights |-> llm]>>)

\* GET /budgeting/insights
GetBudgetInsights(u, llm) ==
    /\ reply' = get_budget_insights(u, llm)
    /\ UNCHANGED <<users, products, match_scores, conversations, messages, request,
                   alertVars, raceVars, cashVars, planVars, matcherVars>>

\* The messages of a conversation, oldest first.
History(ms, conversation_id) ==
    SelectSeq(ms, LAMBDA m : m.conversation_id = conversation_id)

\* POST /chat taking a conversation_id that is not the user's for none at all.
Chat_NewWhenNotFound(u, conversation_id, llm) ==
    LET owned == conversation_id \in 1..Len(conversations)
                 /\ conversations[conversation_id].user_id = u
        id == IF owned THEN conversation_id ELSE Len(conversations) + 1
        user_msg == [conversation_id |-> id, role |-> "user"]
        assistant_msg == [conversation_id |-> id, role |-> "assistant"]
    IN /\ ~owned => Len(conversations) < MaxConversations
       /\ Len(messages) + 2 <= MaxMessages
       /\ conversations' =
              IF owned THEN conversations
              ELSE Append(conversations, [id |-> id, user_id |-> u])
       /\ IF llm = "raises"
          THEN /\ messages' = Append(messages, user_msg)
               /\ reply' = Reply("chat", u, <<conversation_id>>, "error", TRUE, <<>>)
          ELSE /\ messages' = messages \o <<user_msg, assistant_msg>>
               /\ reply' = Reply("chat", u, <<conversation_id>>, "ok", FALSE,
                                 History(messages', id))
       /\ UNCHANGED <<users, products, match_scores, request,
                      alertVars, raceVars, cashVars, planVars, matcherVars>>

\* POST /chat; conversation_id 0 stands for a message without one.  The user
\* message (and a new conversation) is committed before chat_response is
\* awaited.
Chat(u, conversation_id, llm) ==
    LET owned == conversation_id \in 1..Len(conversations)
                 /\ conversations[conversation_id].user_id = u
        id == IF conversation_id = 0 THEN Len(conversations) + 1 ELSE conversation_id
        user_msg == [conversation_id |-> id, role |-> "user"]
        assistant_msg == [conversation_id |-> id, role |-> "assistant"]
    IN /\ conversation_id = 0 => Len(conversations) < MaxConversations
       /\ Len(messages) + 2 <= MaxMessages
       /\ IF conversation_id # 0 /\ ~owned
          THEN /\ reply' = Reply("chat", u, <<conversation_id>>, "not_found", FALSE, <<>>)
               /\ UNCHANGED <<conversations, messages>>
          ELSE /\ conversations' =
                     IF conversation_id = 0
                     THEN Append(conversations, [id |-> id, user_id |-> u])
                     ELSE conversations
               /\ IF llm = "raises"
                  THEN /\ messages' = Append(messages, user_msg)
                       /\ reply' = Reply("chat", u, <<conversation_id>>, "error",
                                         TRUE, <<>>)
                  ELSE /\ messages' = messages \o <<user_msg, assistant_msg>>
                       /\ reply' = Reply("chat", u, <<conversation_id>>, "ok", FALSE,
                                         History(messages', id))
       /\ UNCHANGED <<users, products, match_scores, request,
                      alertVars, raceVars, cashVars, planVars, matcherVars>>

AiNext ==
    \/ \E k \in TransactionKinds : CreateTransaction(Owner, k)
    \/ \E d \in GoalDates, llm \in LlmCalls : CreateGoalWithPlan(Owner, d, llm)
    \/ \E llm \in LlmCalls : GetBudgetInsights(Owner, llm)
    \/ \E goal_id \in 0..MaxGoals, llm \in LlmCalls :
           GetRecommendations(Owner, goal_id, 1, llm)
    \/ \E u \in Users, conversation_id \in 0..MaxConversations, llm \in LlmCalls :
           Chat(u, conversation_id, llm)

SpecAi == AiInit /\ [][AiNext]_vars


(***************************************************************************)
(* financial_engine.py: recommend_products.  Scores are Python floats; a   *)
(* score may be negative.                                                  *)
(***************************************************************************)

MaxItems == 4

\* The slices [:3], [:2] and [:2]
FundLimit == 3
CardLimit == 2
DepositLimit == 2

\* An entry of the catalog: its name and the attributes the scores read.
CatalogItem(attrs, name) == [name |-> name, attrs |-> attrs]

FundKinds ==
    << [risk_score |-> 3, expected_return |-> 12, ideal_horizon_years |-> 5,
        goal_alignment |-> {"retirement"}],
       [risk_score |-> 5, expected_return |-> 15, ideal_horizon_years |-> 7,
        goal_alignment |-> {"Retirement"}],
       [risk_score |-> 1, expected_return |-> 7, ideal_horizon_years |-> 2,
        goal_alignment |-> {"emergency fund"}] >>

CardKinds ==
    << [best_for |-> {"travel"}, min_income |-> 100000, annual_fee |-> 5000],
       [best_for |-> {"groceries"}, min_income |-> 0, annual_fee |-> 0],
       [best_for |-> {"travel"}, min_income |-> 50000, annual_fee |-> 30000] >>

DepositKinds ==
    << [interest_rate |-> 7, min_amount |-> 100000],
       [interest_rate |-> 1, min_amount |-> 10000],
       [interest_rate |-> 5, min_amount |-> 0] >>

\* The catalogs of the model: up to MaxItems entries in each class, entry i
\* named i; two entries of a class may have the same attributes.
Catalogs ==
    UNION { { [mutual_funds |-> [i \in 1..n |-> CatalogItem(FundKinds[t[i]], i)],
               credit_cards |-> [i \in 1..n |-> CatalogItem(CardKinds[t[i]], i)],
               savings |-> [i \in 1..n |-> CatalogItem(DepositKinds[t[i]], i)]] :
              t \in [1..n -> 1..Len(FundKinds)] } :
            n \in 0..MaxItems }

\* avg_goal_horizon: 5 without plans, else the mean of the plans' years
AvgHorizons == { FromInt(5), Decimal(35, 10) }

\* str.lower() on the strings of the model.
Lower(s) == IF s = "Retirement" THEN "retirement" ELSE s

\* The names of the profile's goals, as the user wrote them.
GoalNameSets == { {}, {"Retirement"} }

\* goal_types = {g.get("goal", "").lower() for g in profile.get("goals", [])}
GoalTypes(goals_named) == { Lower(g) : g \in goals_named }

GoalTypeSets == { GoalTypes(g) : g \in GoalNameSets }

Profiles ==
    { [risk_score |-> r, monthly_income |-> i, cash_reserve |-> c,
       avg_goal_horizon |-> h, goals |-> g] :
      r \in RiskScores, i \in {10000, 120000}, c \in {0, 250000},
      h \in AvgHorizons, g \in GoalNameSets }

\* The three most spent-on categories, lower-cased
TagSets == { {}, {"travel"} }

\* The score of a fund, with or without the alignment bonus.
FundScoreSum(item, risk, horizon, aligned) ==
    LET risk_gap == FMul(FromInt(Abs(item.risk_score - risk)), Decimal(7, 10))
        horizon_gap ==
            FMul(SSub(Positive(FromInt(item.ideal_horizon_years)),
                      Positive(horizon)).abs,
                 Decimal(2, 10))
        s1 == SSub(Positive(FromInt(0)), Positive(risk_gap))
        s2 == SSub(s1, Positive(horizon_gap))
        s3 == IF aligned THEN SAdd(s2, Positive(FromInt(1))) ELSE s2
    IN SAdd(s3, Positive(FromInt(item.expected_return)))

\* score_mutual_fund: any(tag in goal_types for tag in goal_alignment)
score_mutual_fund(item, risk, horizon, goal_types) ==
    FundScoreSum(item, risk, horizon, item.goal_alignment \cap goal_types # {})

\* score_card
score_card(item, income, lifestyle_tags) ==
    LET s1 == IF income >= item.min_income THEN Positive(FromInt(2))
              ELSE Positive(FromInt(0))
        s2 == IF lifestyle_tags \cap item.best_for # {}
              THEN SAdd(s1, Positive(Decimal(15, 10)))
              ELSE s1
    IN SSub(s2, Positive(FDiv(FromInt(item.annual_fee), FromInt(10000))))

\* score_deposit
score_deposit(item, reserve) ==
    IF reserve >= item.min_amount THEN Positive(FromInt(item.interest_rate))
    ELSE SSub(Positive(FromInt(item.interest_rate)), Positive(FromInt(2)))

Indices(kinds) == 1..Len(kinds)

\* Every score the runs of the model compute.
ItemScoreTable ==
    [mutual_funds |->
        [k \in Indices(FundKinds), r \in RiskScores, h \in AvgHorizons,
         g \in GoalTypeSets |-> score_mutual_fund(FundKinds[k], r, h, g)],
     credit_cards |->
        [k \in Indices(CardKinds), i \in {10000, 120000}, tags \in TagSets |->
            score_card(CardKinds[k], i, tags)],
     savings |->
        [k \in Indices(DepositKinds), c \in {0, 250000} |->
            score_deposit(DepositKinds[k], c)]]

\* The place of an entry's attributes among the kinds
KindOf(kinds, item) == CHOOSE k \in Indices(kinds) : kinds[k] = item.attrs

FundScore(item, p) ==
    item_scores.mutual_funds[KindOf(FundKinds, item), p.risk_score,
                             p.avg_goal_horizon, GoalTypes(p.goals)]

CardScore(item, p, tags) ==
    item_scores.credit_cards[KindOf(CardKinds, item), p.monthly_income, tags]

DepositScore(item, p) ==
    item_scores.savings[KindOf(DepositKinds, item), p.cash_reserve]


\* _augment: the entry with its class
Augment(items, kind) ==
    [i \in 1..Len(items) |->
        [name |-> items[i].name, kind |-> kind, attrs |-> items[i].attrs]]

\* The keys of a class of the catalog, entry by entry
FundKeys(items, p) == [i \in 1..Len(items) |-> FundScore(items[i], p)]

CardKeys(items, p, tags) == [i \in 1..Len(items) |-> CardScore(items[i], p, tags)]

DepositKeys(items, p) == [i \in 1..Len(items) |-> DepositScore(items[i], p)]

\* recommend_products
recommend_products(p, cat, tags) ==
    LET funds == Truncated(StableDescending(cat.mutual_funds,
                                            FundKeys(cat.mutual_funds, p)),
                           FundLimit)
        cards == Truncated(StableDescending(cat.credit_cards,
                                            CardKeys(cat.credit_cards, p, tags)),
                           CardLimit)
        deposits == Truncated(StableDescending(cat.savings,
                                               DepositKeys(cat.savings, p)),
                              DepositLimit)
    IN [mutual_funds |-> Augment(funds, "mutual_fund"),
        credit_cards |-> Augment(cards, "credit_card"),
        savings |-> Augment(deposits, "savings")]

\* A profile, a catalog and spend categories, nothing recommended yet.
MatcherInit ==
    /\ item_scores = ItemScoreTable
    /\ profile \in Profiles
    /\ catalog \in Catalogs
    /\ top_categories \in TagSets
    /\ product_recs = <<>>
    /\ LoaderIdle
    /\ TablesEmpty
    /\ pc = <<>>
    /\ local = <<>>
    /\ CashIdle
    /\ PlanIdle
    /\ BackendIdle

RecommendProducts ==
    /\ product_recs = <<>>
    /\ product_recs' = recommend_products(profile, catalog, top_categories)
    /\ UNCHANGED <<profile, catalog, top_categories, item_scores, loaderVars,
                   nonMatcherVars>>

MatcherNext ==
    \/ RecommendProducts

SpecMatcher == MatcherInit /\ [][MatcherNext]_vars

(***************************************************************************)
(* load_product_catalog (financial_engine.py): the catalog read from the   *)
(* database, the HTTP endpoint or the static file.  A section is written   *)
(* as the list of the sources its rows came from: <<>> is the empty list.  *)
(***************************************************************************)
TableNames == {"mutual_funds", "credit_cards", "savings"}

\* What pd.read_sql_table meets for one table.
TableStates == {"unreadable", "empty", "rows"}

\* The database behind PRODUCT_DB_URL: not reachable, or its three tables.
Databases ==
    {[reachable |-> FALSE]}
    \cup { [reachable |-> TRUE, tables |-> t] : t \in [TableNames -> TableStates] }

\* What requests.get, raise_for_status and resp.json() come to.
EndpointStates == {"error", "dict", "not a dict"}

LoaderEnvs ==
    [db_url        : BOOLEAN,   \* PRODUCT_DB_URL is set and not empty
     create_engine : BOOLEAN,   \* sqlalchemy could be imported
     database      : Databases,
     rag_endpoint  : BOOLEAN,   \* PRODUCT_RAG_ENDPOINT is set and not empty
     requests      : BOOLEAN,   \* requests could be imported
     endpoint      : EndpointStates,
     file_exists   : BOOLEAN]

Catalog(rows) == [kind |-> "catalog", sections |-> rows]

Raise(error) == [kind |-> "raise", error |-> error]

\* The whole catalog as one source gave it.
From(source) == Catalog([t \in TableNames |-> <<source>>])

\* try: df = pd.read_sql_table(table, conn); catalog[table] = df.to_dict("records")
\* except Exception: catalog[table] = []
ReadTable(state) ==
    IF state = "rows" THEN <<"database">> ELSE <<>>

\* 3) Static JSON fallback
FromFile(env) ==
    IF ~env.file_exists THEN Raise("FileNotFoundError") ELSE From("file")

\* 2) HTTP / RAG-backed catalog
FromEndpoint(env) ==
    IF env.rag_endpoint /\ env.requests /\ env.endpoint = "dict"
    THEN From("endpoint")
    ELSE FromFile(env)

\* 1) DB-backed catalog.  create_engine and engine.begin() stand outside
\* every try: a database that cannot be reached raises out of the function.
load_product_catalog(env) ==
    IF env.db_url /\ env.create_engine
    THEN IF ~env.database.reachable
         THEN Raise("OperationalError")
         ELSE LET catalog_read ==
                      [t \in TableNames |-> ReadTable(env.database.tables[t])]
              IN IF \E t \in TableNames : catalog_read[t] # <<>>
                 THEN Catalog(catalog_read)
                 ELSE FromEndpoint(env)
    ELSE FromEndpoint(env)

LoaderInit ==
    /\ loader_env \in LoaderEnvs
    /\ loaded = <<>>
    /\ profile = <<>>
    /\ catalog = <<>>
    /\ top_categories = {}
    /\ item_scores = {}
    /\ product_recs = <<>>
    /\ TablesEmpty
    /\ pc = <<>>
    /\ local = <<>>
    /\ CashIdle
    /\ PlanIdle
    /\ BackendIdle

LoadProductCatalog ==
    /\ loaded = <<>>
    /\ loaded' = load_product_catalog(loader_env)
    /\ UNCHANGED <<loader_env, profile, catalog, top_categories, item_scores,
                   product_recs, nonMatcherVars>>

LoaderNext ==
    \/ LoadProductCatalog

SpecLoader == LoaderInit /\ [][LoaderNext]_vars


(***************************************************************************)
(* Properties of the alert generator.                                      *)
(***************************************************************************)

C2_InsertFollowsOwnQuery ==
    \A w \in Workers :
        (/\ pc[w] = "done"
         /\ local[w].balance < LowBalanceThreshold
         /\ ~local[w].existing)
        => /\ local[w].created \in DOMAIN alerts
           /\ alerts[local[w].created].user_id = local[w].user
           /\ alerts[local[w].created].alert_type = "low_balance"

\* Two workers served the same user, both inserted, and the user has two
\* unread LOW_BALANCE alerts.
C2_Witness ==
    \E w1, w2 \in Workers :
        /\ w1 # w2
        /\ pc[w1] = "done" /\ pc[w2] = "done"
        /\ local[w1].user = local[w2].user
        /\ local[w1].created # 0 /\ local[w2].created # 0
        /\ {local[w1].created, local[w2].created}
               \subseteq UnreadOfType(alerts, local[w1].user, "low_balance")

\* C3: with requests served one at a time a user has at most one unread
\* LOW_BALANCE alert, and check_low_balance returns an alert only when the
\* user had no unread one: the alert it returns is then the user's only one.
C3_AtMostOneUnreadLowBalance ==
    /\ \A u \in Users : Cardinality(UnreadOfType(alerts, u, "low_balance")) <= 1
    /\ (last.op = "check_low_balance" /\ last.created # <<>>) =>
           UnreadOfType(alerts, last.user, "low_balance") = {last.created[1]}

\* check_low_balance found the balance low and an unread alert in its way,
\* next to an older one that was read.
C3_Witness ==
    /\ last.op = "check_low_balance"
    /\ last.created = <<>>
    /\ Balance(last.user) < LowBalanceThreshold
    /\ UnreadOfType(alerts, last.user, "low_balance") # {}
    /\ \E i \in DOMAIN alerts :
           /\ alerts[i].user_id = last.user
           /\ alerts[i].alert_type = "low_balance"
           /\ alerts[i].is_read

(***************************************************************************)
(* Properties of the planning engine.                                      *)
(***************************************************************************)

InSeq(x, q) == \E i \in DOMAIN q : q[i] = x

\* C4: predictive_alerts returns the healthy message alone exactly when
\* surplus >= 5000, runway_months >= 3 and savings_rate >= 0.20; in every
\* other case the healthy message is not in the result.
C4_HealthyIffAllThresholdsMet ==
    cash_alerts # <<>> =>
        LET healthy ==
                /\ cash_summary.surplus >= 5000
                /\ \/ cash_summary.runway_months.den = 0
                   \/ cash_summary.runway_months.num >= 3 * cash_summary.runway_months.den
                /\ 5 * cash_summary.savings_rate.num >= cash_summary.savings_rate.den
        IN /\ healthy => cash_alerts = <<"healthy">>
           /\ ~healthy => ~InSeq("healthy", cash_alerts)

\* All three figures sit exactly on their thresholds and the result is the
\* healthy message.
C4_Witness ==
    /\ cash_alerts = <<"healthy">>
    /\ cash_summary.surplus = 5000
    /\ cash_summary.runway_months = [num |-> 120000, den |-> 40000]
    /\ cash_summary.savings_rate = [num |-> 10000, den |-> 50000]

\* The numbers of a list of plans, in order.
PlanNumbers(ps) ==
    [i \in DOMAIN ps |-> <<ps[i].name, ps[i].target_amount, ps[i].years,
                          ps[i].monthly_investment, ps[i].projected_value>>]

SameRiskRerun == prev_run # NoRun /\ prev_run.risk_score = risk_score

\* C5: whatever the LLM explanation meets (flag off, package missing, key
\* missing, the call raising, empty text, text), build_goal_plans returns
\* plans, never aborts, the number and order of the plans and each plan's
\* monthly_investment and projected_value are those of any other run on the
\* same goals and risk score, and each explanation starts with the
\* rule-based text.
C5_LlmOutcomeLeavesNumbersAlone ==
    /\ plans # Aborted
    /\ \A i \in DOMAIN plans :
          LET p == plans[i] IN
          /\ Len(p.explanation) >= 1
          /\ p.explanation[1] = [risk_rate |-> _annual_return_from_risk(risk_score),
                                 target_amount |-> p.target_amount,
                                 years |-> p.years,
                                 monthly_investment |-> p.monthly_investment]
    /\ SameRiskRerun => PlanNumbers(plans) = PlanNumbers(prev_run.plans)

\* A run where the call raised follows one where it returned text, over two
\* goals the second of which parses and the first of which does not.
C5_Witness ==
    /\ SameRiskRerun
    /\ llm_env.flag /\ llm_env.package /\ llm_env.key /\ llm_env.call = "raises"
    /\ prev_run.llm_env.flag /\ prev_run.llm_env.package /\ prev_run.llm_env.key
    /\ prev_run.llm_env.call = "text"
    /\ Len(goal_rows) = 2
    /\ ~Parseable(goal_rows[1])
    /\ Len(plans) = 1
    /\ Len(prev_run.plans[1].explanation) = 2
    /\ Len(plans[1].explanation) = 1

\* C9: the projected_value of a plan, the forward application of the
\* contribution formula to its monthly_investment, is the target amount to
\* within a relative 1e-6, for a positive target and every risk score.
C9_ProjectedValueMeetsTarget ==
    plans # Aborted =>
        \A i \in DOMAIN plans :
            WithinRel(plans[i].projected_value, plans[i].target_amount, 1, 1000000)

\* A plan over the longest horizon whose projected value is not the target
\* to the last bit.
C9_Witness ==
    /\ plans # Aborted
    /\ \E i \in DOMAIN plans :
          /\ plans[i].years = FromInt(MaxYears)
          /\ plans[i].projected_value # plans[i].target_amount

\* The run before was on a lower risk score, all else the same.
RiskRaised ==
    /\ prev_run # NoRun
    /\ prev_run.llm_env = llm_env
    /\ prev_run.risk_score < risk_score

\* C10, as the specification words it: for a fixed target and horizon the
\* monthly_investment of a higher risk score is never above that of a lower.
C10_NonIncreasingInRisk ==
    RiskRaised =>
        \A i \in DOMAIN plans :
            ~FLess(prev_run.plans[i].monthly_investment, plans[i].monthly_investment)

\* C10, amended: a higher risk score never raises monthly_investment by more
\* than a relative 1e-9, and lowers it when the horizon is of two months or
\* more.
C10_NonIncreasingUpToRounding ==
    RiskRaised =>
        \A i \in DOMAIN plans :
            LET before == prev_run.plans[i].monthly_investment
                after == plans[i].monthly_investment
            IN /\ FLess(before, after) => WithinRel(after, before, 1, 1000000000)
               /\ Months(plans[i].years) >= 2 => FLess(after, before)

\* The risk score went from 1 to 5 over a goal a month away and a goal
\* years away.
C10_Witness ==
    /\ RiskRaised
    /\ prev_run.risk_score = 1
    /\ risk_score = 5
    /\ Len(plans) = 2
    /\ Months(plans[1].years) = 1
    /\ Months(plans[2].years) >= 12

(***************************************************************************)
(* Properties of the backend requests that call for text.                  *)
(***************************************************************************)

\* C6: in create_goal, get_budget_insights, get_recommendations and the chat
\* endpoint, a failure of the text-generation call is absorbed at the call
\* site: the request whose call failed still completes with a result, no
\* error reaches its caller.
C6_FailureAbsorbed ==
    reply # <<>> /\ reply.llm_failed => reply.status = "ok"

\* The get_recommendations call just served returned for a stored user.
RecommendationsReturned ==
    /\ reply # <<>>
    /\ reply.op = "get_recommendations"
    /\ reply.status = "ok"
    /\ \E i \in 1..Len(users) : users[i].id = reply.user_id

\* C7: get_recommendations returns exactly the products whose match score is
\* strictly above 0.5, in descending order of match score, cut to the first
\* limit entries: every entry is a stored product with its own score, above
\* 0.5; no product is entered twice; the scores never rise along the list;
\* the list has limit entries, or all the products above 0.5 when they are
\* fewer; and a product above 0.5 that is left out scores no more than any
\* entry.
C7_AboveHalfDescendingTruncated ==
    RecommendationsReturned =>
        LET user == users[CHOOSE i \in 1..Len(users) : users[i].id = reply.user_id]
            horizon == GoalHorizon(goals, reply.args[1], reply.user_id)
            limit == reply.args[2]
            body == reply.body
            above == { i \in 1..Len(products) :
                         FLess(Half, MatchScore(products[i], user, horizon)) }
            entered == { body[k].product : k \in 1..Len(body) }
        IN /\ Len(body) = Min(limit, Cardinality(above))
           /\ Cardinality(entered) = Len(body)
           /\ \A k \in 1..Len(body) :
                 /\ body[k].product \in { products[i] : i \in above }
                 /\ body[k].match_score = MatchScore(body[k].product, user, horizon)
           /\ \A k \in 1..(Len(body) - 1) :
                 ~FLess(body[k].match_score, body[k + 1].match_score)
           /\ \A i \in above : products[i] \notin entered =>
                 \A k \in 1..Len(body) :
                     ~FLess(body[k].match_score,
                            MatchScore(products[i], user, horizon))

\* A call with limit 1 returned the third of three products: the first
\* scores exactly 0.5, the second is above 0.5 and below the third.
C7_Witness ==
    /\ RecommendationsReturned
    /\ reply.args[2] = 1
    /\ Len(products) = 3
    /\ Len(reply.body) = 1
    /\ reply.body[1].product = products[3]
    /\ LET user == users[1]
           horizon == GoalHorizon(goals, reply.args[1], reply.user_id)
       IN /\ MatchScore(products[1], user, horizon) = Half
          /\ FLess(Half, MatchScore(products[2], user, horizon))
          /\ FLess(MatchScore(products[2], user, horizon), reply.body[1].match_score)

(***************************************************************************)
(* Properties of the product matcher.                                      *)
(***************************************************************************)

\* The place of the catalog entry named name in a list of recommendations, 0
\* when it is not in the list.
PlaceOf(name, recs) ==
    IF \E k \in 1..Len(recs) : recs[k].name = name
    THEN CHOOSE k \in 1..Len(recs) : recs[k].name = name
    ELSE 0

SameScore(a, b) == ~SLess(a, b) /\ ~SLess(b, a)

\* Entries i < j of a class have the same score and are both recommended.
TiedPairOut(items, recs, keys, i, j) ==
    /\ i < j
    /\ SameScore(keys[i], keys[j])
    /\ PlaceOf(items[i].name, recs) # 0
    /\ PlaceOf(items[j].name, recs) # 0

\* Recommended entries of equal score stand in the order of the catalog.
TiesKeepOrder(items, recs, keys) ==
    \A i, j \in 1..Len(items) :
        TiedPairOut(items, recs, keys, i, j) =>
            PlaceOf(items[i].name, recs) < PlaceOf(items[j].name, recs)

\* C8: in recommend_products, for each product class, two catalog items with
\* an identical computed score appear in the output in the same relative
\* order as in the catalog.
C8_TiesKeepCatalogOrder ==
    product_recs # <<>> =>
        /\ TiesKeepOrder(catalog.mutual_funds, product_recs.mutual_funds,
                         FundKeys(catalog.mutual_funds, profile))
        /\ TiesKeepOrder(catalog.credit_cards, product_recs.credit_cards,
                         CardKeys(catalog.credit_cards, profile, top_categories))
        /\ TiesKeepOrder(catalog.savings, product_recs.savings,
                         DepositKeys(catalog.savings, profile))

\* The first two funds of the catalog tie and are both recommended, behind a
\* third that scores more; the first two cards tie and are both recommended.
C8_Witness ==
    /\ product_recs # <<>>
    /\ Len(catalog.mutual_funds) = 3
    /\ LET fund_keys == FundKeys(catalog.mutual_funds, profile)
           card_keys == CardKeys(catalog.credit_cards, profile, top_categories)
       IN /\ TiedPairOut(catalog.mutual_funds, product_recs.mutual_funds,
                         fund_keys, 1, 2)
          /\ SLess(fund_keys[1], fund_keys[3])
          /\ product_recs.mutual_funds[1].name = 3
          /\ TiedPairOut(catalog.credit_cards, product_recs.credit_cards,
                         card_keys, 1, 2)

\* The rates the specification lists for the scores 1 to 5, in thousandths.
ListedThousandths == <<65, 80, 105, 120, 145>>

\* The input is the number k, as an int or as a float.
IsScore(input, k) == ~input.none /\ input.num = k * input.den

ParsedGoals == SelectSeq(goal_rows, BothParse)

\* C12: build_goal_plans never raises, whatever the goals: it returns one
\* plan for each goal whose target_amount and years both parse, in the order
\* of the goals, and leaves out the others.
C12_OnePlanPerParsedGoal ==
    plans # NotCalled =>
        /\ plans # Aborted
        /\ Len(plans) = Len(ParsedGoals)
        /\ \A i \in 1..Len(ParsedGoals) :
               /\ plans[i].target_amount = ParsedGoals[i].target_amount
               /\ plans[i].years = ParsedGoals[i].years

\* round(x) of Python for x >= 0: to the nearest integer, halves to the
\* even one.
PyRound(x) ==
    LET whole == FTrunc(x)
        rest == FSub(x, FromInt(whole))
    IN IF FLess(Half, rest) \/ (rest = Half /\ whole % 2 = 1) THEN whole + 1
       ELSE whole

\* max(round(years * 12), 1)
RoundedMonths(years) ==
    IF years.neg THEN 1 ELSE Max(PyRound(FMul(years.abs, FromInt(12))), 1)

\* build_goal_plans has returned a list.
PlansReturned == plans # NotCalled /\ plans # Aborted

\* C16: _sip_required takes months = max(round(years * 12), 1): 0.99 years
\* are 12 months.
C16_MonthsRounded ==
    PlansReturned =>
        \A i \in 1..Len(ParsedGoals) :
            OutcomeOf(ParsedGoals[i], risk_score).months =
                RoundedMonths(ParsedGoals[i].years)

\* C17: every plan has monthly_investment >= 0, for a negative target and
\* for a horizon of zero or less as well.
C17_InvestmentNonNegative ==
    PlansReturned =>
        \A i \in 1..Len(plans) : ~plans[i].monthly_investment.neg

\* C13: with monthly_expense = 0 and emi = 0, summarize_cash_flow returns
\* runway_months = +infinity whatever the cash reserve, a reserve of 0
\* included.
C13_NoBurnInfiniteRunway ==
    (cash_summary # <<>> /\ cash.monthly_expense = 0 /\ cash.emi = 0) =>
        cash_summary.runway_months = Infinity

\* Nothing spent, nothing owed, nothing in reserve: the runway is infinite.
C13_Witness ==
    /\ cash_summary # <<>>
    /\ cash.monthly_expense = 0
    /\ cash.emi = 0
    /\ cash.cash_reserve = 0
    /\ cash_summary.runway_months = Infinity

\* The place of an alert in the order of the rules.
RuleRank(alert) ==
    CASE alert = "deficit" -> 1
      [] alert = "thin_surplus" -> 1
      [] alert = "low_reserve" -> 2
      [] alert = "low_savings" -> 3
      [] OTHER -> 4

\* C18: predictive_alerts goes through its rules in a fixed order: the
\* deficit alert iff surplus < 0, else the thin-surplus alert iff
\* 0 <= surplus < 5000 (never both), then the low-reserve alert iff
\* runway < 3, then the low-savings alert iff savings_rate < 0.20; each at
\* most once.
C18_RulesInFixedOrder ==
    cash_alerts # <<>> =>
        /\ InSeq("deficit", cash_alerts) <=> cash_summary.surplus < 0
        /\ InSeq("thin_surplus", cash_alerts) <=>
               (0 <= cash_summary.surplus /\ cash_summary.surplus < 5000)
        /\ InSeq("low_reserve", cash_alerts) <=>
               /\ cash_summary.runway_months.den # 0
               /\ cash_summary.runway_months.num < 3 * cash_summary.runway_months.den
        /\ InSeq("low_savings", cash_alerts) <=>
               5 * cash_summary.savings_rate.num < cash_summary.savings_rate.den
        /\ \A i, j \in DOMAIN cash_alerts :
               i < j => RuleRank(cash_alerts[i]) < RuleRank(cash_alerts[j])

\* A deficit, a reserve of under three months and a low savings rate at
\* once: three alerts, in the order of the rules.
C18_Witness ==
    /\ cash_alerts = <<"deficit", "low_reserve", "low_savings">>
    /\ cash_summary.surplus < 0

\* The call for a stored user has been served.
ScoresAsked ==
    /\ reply # <<>>
    /\ reply.op = "get_recommendations"
    /\ \E i \in 1..Len(users) : users[i].id = reply.user_id

\* The user of the call served, and the horizon of its goal.
AskingUser == users[CHOOSE i \in 1..Len(users) : users[i].id = reply.user_id]
AskedHorizon == GoalHorizon(goals, request.goal_id, request.user_id)

\* The score of the i-th stored product for the call served.
AskedScore(i) == MatchScore(products[i], AskingUser, AskedHorizon)

\* The place of a risk tier in low < medium < high.
TierStep(risk_level) ==
    CASE risk_level = "low" -> 1
      [] risk_level = "medium" -> 2
      [] risk_level = "high" -> 3

\* The risk bonus by steps between tiers.
TierFit(risk_level, user_risk) ==
    IF risk_level = user_risk THEN "same"
    ELSE IF Abs(TierStep(risk_level) - TierStep(user_risk)) = 1 THEN "adjacent"
    ELSE "apart"

\* C14: the risk bonus of _calculate_match_score is + 0.3 when the product's
\* tier is the user's, + 0.15 when the two are one step apart in
\* low < medium < high (low and medium, medium and high, either way round),
\* and nothing when they are two steps apart (low and high).
C14_RiskBonusByTierSteps ==
    ScoresAsked =>
        \A i \in 1..Len(products) :
            AskedScore(i) # ScoreRaised =>
                AskedScore(i) =
                    ScoreSum(TierFit(products[i].columns.risk_level,
                                     UserRisk(AskingUser.risk_tolerance)),
                             IncomeHit(products[i].columns, UserProfile(AskingUser)),
                             AgeHit(products[i].columns, UserProfile(AskingUser)),
                             HorizonHit(products[i].columns, AskedHorizon),
                             FeeHit(products[i].columns, UserProfile(AskingUser)),
                             RewardsHit(products[i].columns))

\* C19: _calculate_match_score returns a score for every product and every
\* profile get_recommendations builds from a stored user, a user whose age,
\* income or risk_tolerance is null or whose risk_tolerance is no key of the
\* mapping included.
C19_ScoreForEveryProfile ==
    ScoresAsked => \A i \in 1..Len(products) : AskedScore(i) # ScoreRaised

\* The income bonus as given whenever there is no minimum, and whenever the
\* minimum is at most a tenth of the income.
MinimumHit(product, user_profile) ==
    IF HasMinimum(product) THEN IncomeHit(product, user_profile) ELSE TRUE

\* C20: _calculate_match_score adds the + 0.1 affordability bonus whenever
\* the product has no minimum investment, a user without an income or with
\* an income of 0 included, and whenever the minimum is there and at most
\* 10% of the income.
C20_BonusWithoutMinimum ==
    ScoresAsked =>
        \A i \in 1..Len(products) :
            AskedScore(i) # ScoreRaised =>
                AskedScore(i) =
                    ScoreSum(RiskFit(products[i].columns.risk_level,
                                     UserRisk(AskingUser.risk_tolerance)),
                             MinimumHit(products[i].columns, UserProfile(AskingUser)),
                             AgeHit(products[i].columns, UserProfile(AskingUser)),
                             HorizonHit(products[i].columns, AskedHorizon),
                             FeeHit(products[i].columns, UserProfile(AskingUser)),
                             RewardsHit(products[i].columns))

\* The alerts the last call created, by place in the table.
CreatedByLast == {last.created[k] : k \in DOMAIN last.created}

\* An unread GOAL_DEADLINE alert of the user for this very goal id, among
\* the alerts the last call found.
HadDeadlineAlert(u, gid) ==
    \E a \in DOMAIN alerts \ CreatedByLast :
        /\ alerts[a].user_id = u
        /\ alerts[a].alert_type = "goal_deadline"
        /\ alerts[a].alert_metadata = [key |-> "goal_id", id |-> gid]
        /\ ~alerts[a].is_read

\* C15: check_goal_deadlines, not interleaved with another call, creates a
\* GOAL_DEADLINE alert for every active goal of the user due between now and
\* now + 30 days, unless an unread GOAL_DEADLINE alert for that same goal id
\* exists; an unread alert of another goal id (of goal 12 when goal 1 is
\* checked) does not stand in its way.
C15_AlertUnlessSameGoalAlerted ==
    last.op = "check_goal_deadlines" =>
        \A i \in DOMAIN goals :
            GoalIsDue(goals[i], last.user) =>
                ((\E a \in CreatedByLast :
                      alerts[a].alert_metadata = [key |-> "goal_id", id |-> goals[i].id])
                 <=> ~HadDeadlineAlert(last.user, goals[i].id))

\* C21: every score _calculate_match_score returns lies between the base 0.5
\* and 1.0, both included: the bonuses only add to the base, and a sum above
\* 1.0 comes back as exactly 1.0.
C21_ScoreBetweenBaseAndOne ==
    ScoresAsked =>
        \A i \in 1..Len(products) :
            AskedScore(i) # ScoreRaised =>
                /\ ~FLess(AskedScore(i), Half)
                /\ ~FLess(FromInt(1), AskedScore(i))

\* A moderate user of 25 with an income and a goal more than a year away, and
\* a medium-risk mutual fund within reach: 0.5 + 0.3 + 0.1 + 0.1 + 0.1 comes
\* back as 1.0.
C21_Witness ==
    /\ ScoresAsked
    /\ AskingUser.risk_tolerance = "moderate"
    /\ AskingUser.age = 25
    /\ AskingUser.income = UserIncome(Owner)
    /\ AskedHorizon.num > 12 * AskedHorizon.den
    /\ \E i \in 1..Len(products) :
           /\ products[i].columns.product_type = "mutual_fund"
           /\ products[i].columns.risk_level = "medium"
           /\ IncomeHit(products[i].columns, UserProfile(AskingUser))
           /\ AskedScore(i) = FromInt(1)

\* The names of the entries returned for a class.
NamesOf(recs) == {recs[i].name : i \in DOMAIN recs}

\* recs are min(limit, number of entries) different entries of the class,
\* none of them scoring below an entry that was left out.  keys[i] is the
\* score of entry i, which is named i.
TopOfClass(items, recs, keys, limit) ==
    /\ Len(recs) = Min(limit, Len(items))
    /\ Cardinality(NamesOf(recs)) = Len(recs)
    /\ NamesOf(recs) \subseteq DOMAIN items
    /\ \A i \in DOMAIN recs : recs[i].attrs = items[recs[i].name].attrs
    /\ \A i \in DOMAIN recs, j \in DOMAIN items \ NamesOf(recs) :
           ~SLess(keys[recs[i].name], keys[j])

\* C22: recommend_products returns min(limit, number of entries of the class)
\* entries for each class, with a limit of 3 for mutual funds, 2 for credit
\* cards and 2 for savings; an entry is not left out for a low, zero or
\* negative score, and every entry returned scores at least as much as every
\* entry of its class that was not returned.
C22_TopEntriesOfEachClass ==
    product_recs # <<>> =>
        /\ TopOfClass(catalog.mutual_funds, product_recs.mutual_funds,
                      FundKeys(catalog.mutual_funds, profile), 3)
        /\ TopOfClass(catalog.credit_cards, product_recs.credit_cards,
                      CardKeys(catalog.credit_cards, profile, top_categories), 2)
        /\ TopOfClass(catalog.savings, product_recs.savings,
                      DepositKeys(catalog.savings, profile), 2)

\* Four funds of which three are returned, the one left out scoring below
\* all of them, and a credit card returned with a score below zero.
C22_Witness ==
    /\ product_recs # <<>>
    /\ Len(catalog.mutual_funds) = 4
    /\ Len(product_recs.mutual_funds) = 3
    /\ \E j \in DOMAIN catalog.mutual_funds \ NamesOf(product_recs.mutual_funds) :
           \A i \in DOMAIN product_recs.mutual_funds :
               SLess(FundScore(catalog.mutual_funds[j], profile),
                     FundScore(catalog.mutual_funds[product_recs.mutual_funds[i].name],
                               profile))
    /\ \E i \in DOMAIN product_recs.credit_cards :
           SLess(CardScore(catalog.credit_cards[product_recs.credit_cards[i].name],
                           profile, top_categories),
                 Positive(FromInt(0)))

\* Some goal_alignment tag of the fund is some goal of the profile, letter
\* case set aside on both sides.
AlignedIgnoringCase(item, p) ==
    \E tag \in item.attrs.goal_alignment, g \in p.goals : Lower(tag) = Lower(g)

\* The score of the fund is not what it is for a profile without goals: the
\* alignment bonus is in it.
HasAlignmentBonus(item, p) ==
    FundScore(item, p) # FundScore(item, [p EXCEPT !.goals = {}])

\* C23: the score of a mutual fund in recommend_products holds the + 1.0
\* alignment bonus exactly when some goal_alignment tag of the fund equals
\* some goal of the profile, letter case ignored on both sides.
C23_AlignmentIgnoresCase ==
    product_recs # <<>> =>
        \A i \in DOMAIN catalog.mutual_funds :
            HasAlignmentBonus(catalog.mutual_funds[i], profile)
                <=> AlignedIgnoringCase(catalog.mutual_funds[i], profile)

\* The rules of the insights returned, in the order returned.
RulesReturned == [i \in 1..Len(behavior.insights) |-> behavior.insights[i].rule]

\* Essential spend above 60% of a positive income.
EssentialsHigh ==
    /\ spend_input.monthly_income > 0
    /\ 10 * EssentialSpend(spend_input.spend_df) > 6 * spend_input.monthly_income

\* The largest share above 30% of the total spend.
TopShareHigh ==
    \E i \in 1..Len(spend_input.spend_df) :
        10 * spend_input.spend_df[i].amount > 3 * AmountSum(spend_input.spend_df)

\* Some transaction of a category matching EMI or SIP, whatever the case.
HasRecurringDebit ==
    /\ spend_input.txn_df.frame
    /\ \E i \in 1..Len(spend_input.txn_df.rows) :
           ContainsEmiOrSip(spend_input.txn_df.rows[i].category)

\* C24: behavior_insights returns a non-empty list of insights holding, in
\* this order and each at most once, the essentials insight iff essential
\* spend is above 60% of a positive income, the top-category insight iff
\* the largest share is above 30% of total spend, and the recurring-debit
\* insight iff some transaction category matches EMI or SIP; the balanced
\* fallback is there iff none of the three is.
C24_InsightsByRuleInOrder ==
    behavior # <<>> =>
        LET fired == (IF EssentialsHigh THEN <<"essentials">> ELSE <<>>)
                     \o (IF TopShareHigh THEN <<"top_category">> ELSE <<>>)
                     \o (IF HasRecurringDebit THEN <<"recurring">> ELSE <<>>)
        IN /\ behavior.insights # <<>>
           /\ RulesReturned = IF fired = <<>> THEN <<"balanced">> ELSE fired

\* All three rules fired in one call.
C24_Witness ==
    /\ behavior # <<>>
    /\ RulesReturned = <<"essentials", "top_category", "recurring">>

\* The database is asked, and it gives at least one row.
DatabaseTried == loader_env.db_url /\ loader_env.create_engine

DatabaseYields ==
    /\ DatabaseTried
    /\ loader_env.database.reachable
    /\ \E t \in TableNames : loader_env.database.tables[t] = "rows"

\* The endpoint is asked, and it gives a catalog.
EndpointYields ==
    /\ loader_env.rag_endpoint
    /\ loader_env.requests
    /\ loader_env.endpoint = "dict"

\* Nothing raised but FileNotFoundError, and that only without any source.
RaisesOnlyWithoutSource ==
    loaded.kind = "raise" =>
        /\ loaded.error = "FileNotFoundError"
        /\ ~DatabaseYields
        /\ ~EndpointYields
        /\ ~loader_env.file_exists

\* The sources in their order: database, endpoint, file.
SourcesInOrder ==
    loaded.kind = "catalog" =>
        /\ DatabaseYields =>
               \A t \in TableNames :
                   loader_env.database.tables[t] = "rows"
                       => loaded.sections[t] = <<"database">>
        /\ ~DatabaseYields /\ EndpointYields => loaded = From("endpoint")
        /\ ~DatabaseYields /\ ~EndpointYields => loaded = From("file")

\* A database that cannot be reached gives what the next sources give.
UnreachableFallsThrough ==
    DatabaseTried /\ ~loader_env.database.reachable =>
        loaded = FromEndpoint(loader_env)

\* A table that cannot be read has its section from the file.
UnreadableFromFile ==
    loaded.kind = "catalog" /\ DatabaseYields /\ loader_env.file_exists =>
        \A t \in TableNames :
            loader_env.database.tables[t] = "unreadable"
                => loaded.sections[t] = <<"file">>

\* C25: load_product_catalog tries the database, then the HTTP endpoint,
\* then the static file, and fails only when no fallback path exists: a
\* database or endpoint that cannot be reached or errs falls through to the
\* next source, a table that cannot be read has its section from the file,
\* and FileNotFoundError is raised only when no earlier source gave a
\* catalog and the file is missing.
C25_FailsOnlyWithoutFallback ==
    loaded # <<>> =>
        /\ RaisesOnlyWithoutSource
        /\ SourcesInOrder
        /\ UnreachableFallsThrough
        /\ UnreadableFromFile

\* The unread payment reminders of obligation oid.
UnreadReminders(oid) ==
    { i \in DOMAIN alerts :
        /\ alerts[i].alert_type \in {"due_soon", "past_due"}
        /\ alerts[i].alert_metadata.key = "obligation_id"
        /\ alerts[i].alert_metadata.id = oid
        /\ alerts[i].is_read = FALSE }

\* C26: with the calls served one after the other, whatever the sequence of
\* check_obligations_due calls, clock advances and mark_alert_read calls, an
\* obligation never has more than one unread payment reminder: no unread
\* due_soon alert next to an unread past_due alert of the same obligation.
C26_OneUnreadReminder ==
    \A i \in DOMAIN obligations :
        Cardinality(UnreadReminders(obligations[i].id)) <= 1

\* The obligation is past due, its due_soon reminder is still unread, and
\* the check has just run without creating a past_due reminder.
C26_Witness ==
    /\ last.op = "check_obligations_due"
    /\ last.created = <<>>
    /\ \E i \in DOMAIN obligations :
           /\ obligations[i].user_id = last.user
           /\ IsPastDue(obligations[i])
           /\ \E a \in UnreadReminders(obligations[i].id) :
                  alerts[a].alert_type = "due_soon"

\* The user's LOW_BALANCE alerts that were read.
ReadLowBalance(u) ==
    { i \in DOMAIN alerts :
        /\ alerts[i].user_id = u
        /\ alerts[i].alert_type = "low_balance"
        /\ alerts[i].is_read }

\* C27: only unread alerts count for the dedup: a check_low_balance call
\* that finds the balance below the threshold and no unread LOW_BALANCE
\* alert of the user, all of them having been marked read, creates a new
\* unread LOW_BALANCE alert and returns it.
C27_ReadAlertsDoNotSuppress ==
    [][(/\ last'.op = "check_low_balance"
        /\ Balance(last'.user) < LowBalanceThreshold
        /\ UnreadOfType(alerts, last'.user, "low_balance") = {})
       => /\ Len(alerts') = Len(alerts) + 1
          /\ last'.created = <<Len(alerts')>>
          /\ UnreadOfType(alerts', last'.user, "low_balance") = {Len(alerts')}
          /\ \A i \in DOMAIN alerts : alerts'[i] = alerts[i]]_vars

\* The check created an alert for a user whose earlier alert had been read.
C27_Witness ==
    /\ last.op = "check_low_balance"
    /\ last.created # <<>>
    /\ Balance(last.user) < LowBalanceThreshold
    /\ ReadLowBalance(last.user) # {}

\* The rows of the alerts table that have the id and the owner asked for.
Asked(alert_id, u) ==
    { i \in DOMAIN alerts : alerts[i].id = alert_id /\ alerts[i].user_id = u }

\* C28: mark_alert_read(alert_id, user_id) sets is_read on the alert with
\* that id owned by that user, on no other, and returns True; when no alert
\* with that id belongs to the user (an unknown id, another user's alert) it
\* returns False and leaves every stored alert as it was; and no operation
\* of the service takes is_read back from true to false.
C28_OnlyOwnAlertMarkedRead ==
    [][/\ \A u \in Users, a \in 1..(MaxAlerts + 1) :
              MarkAlertRead(u, a) =>
                  /\ DOMAIN alerts' = DOMAIN alerts
                  /\ last'.ok = (Asked(a, u) # {})
                  /\ \A i \in Asked(a, u) :
                         alerts'[i] = [alerts[i] EXCEPT !.is_read = TRUE]
                  /\ \A i \in DOMAIN alerts \ Asked(a, u) : alerts'[i] = alerts[i]
       /\ \A i \in DOMAIN alerts :
              /\ i \in DOMAIN alerts'
              /\ alerts[i].is_read => alerts'[i].is_read]_vars

\* A user asked for another user's unread alert: False, and it is still unread.
C28_Witness ==
    /\ last.op = "mark_alert_read"
    /\ ~last.ok
    /\ \E i \in DOMAIN alerts :
           /\ alerts[i].user_id # last.user
           /\ ~alerts[i].is_read
    /\ \E i \in DOMAIN alerts : alerts[i].is_read

\* C29: with the chat requests of a conversation served one at a time, some
\* of them meeting a text-generation call that fails, the stored messages of
\* the conversation in order of creation alternate user, assistant, starting
\* with a user message: every user message is followed by its reply before
\* the next user message.
C29_MessagesAlternate ==
    \A c \in DOMAIN conversations :
        LET history == History(messages, c)
        IN /\ Len(history) % 2 = 0
           /\ \A i \in DOMAIN history :
                  history[i].role = IF i % 2 = 1 THEN "user" ELSE "assistant"

\* The conversation asked for is there and belongs to the user who asks.
Owned(u, conversation_id) ==
    /\ conversation_id \in DOMAIN conversations
    /\ conversations[conversation_id].user_id = u

\* C30: a chat request that names a conversation_id which does not exist or
\* belongs to another user answers 'Conversation not found' and changes no
\* stored state: no conversation is created, no message is added, and the
\* text-generation service is not called, so its failing is not met.
C30_NotFoundChangesNothing ==
    [][(/\ reply' # <<>>
        /\ reply'.op = "chat"
        /\ reply'.args # <<0>>
        /\ ~Owned(reply'.user_id, reply'.args[1]))
       => /\ reply'.status = "not_found"
          /\ ~reply'.llm_failed
          /\ conversations' = conversations
          /\ messages' = messages]_vars

\* A user asked for the conversation of another user, which has messages.
C30_Witness ==
    /\ reply # <<>>
    /\ reply.op = "chat"
    /\ reply.status = "not_found"
    /\ reply.args[1] \in DOMAIN conversations
    /\ History(messages, reply.args[1]) # <<>>

====
